---------------------------- MODULE Spec2Model ----------------------------
(***************************************************************************)
(* Loop-ordering and blocking kernels of the Matrix_Computations suite:    *)
(*   - the six C++ orderings gemm_ijk .. gemm_kji and gemm_blocked,        *)
(*   - the C suite matmul_ijk .. matmul_blocked with verify_correctness,   *)
(*   - the two gaxpy orderings.                                            *)
(* A double is modelled by an integer: every statement about results is a  *)
(* statement in exact arithmetic.  A kernel is an operator that runs the   *)
(* loop nest of the source, update by update, on the accumulator.          *)
(***************************************************************************)
EXTENDS Integers, Sequences, FiniteSets, TLC

VARIABLES
    suite,       \* which program of the repository runs: "gemm", "matmul", "gaxpy"
    A,           \* left operand (never written by a kernel)
    B,           \* right operand of a multiply; unused by gaxpy
    C,           \* accumulator matrix of a multiply
    x,           \* input vector of gaxpy
    y,           \* accumulator vector of gaxpy
    acc0,        \* content of the accumulator (C or y) when the last call started
    kernel,      \* name of the last kernel called, "none" after construction
    arg_block,   \* block_size argument of the last blocked call, 0 when none
    calls,       \* number of kernel calls made on the accumulator since construction
    log,         \* the (i, j, k) updates made by the last multiply call, in order
    verdict,     \* PASS / FAIL per variant after verify_correctness, else <<>>
    pc,          \* position inside a running blocked call: "idle" between calls
    tile,        \* tile indices ii, jj, kk of the running blocked call, and the
                 \* number of tile products (kk-loop bodies) it has run
    bench,       \* the benchmark harness that is running: its name, its position,
                 \* the runs it was asked for and the runs it has made
    driver       \* the test or benchmark program that is running: its position,
                 \* what its checks found so far, and its exit code

vars == <<suite, A, B, C, x, y, acc0, kernel, arg_block, calls, log, verdict,
          pc, tile, bench, driver>>

---------------------------------------------------------------------------
(* Bounds of the model.                                                    *)

\* largest number of rows / columns of a multiply operand
MaxDim == 3
\* largest block size tried besides the sizes the source fixes
MaxBlock == 3
\* largest number of rows / columns of a gaxpy operand
MaxVec == 5
\* number of base-3 digits of a fill seed: the fill values repeat with this period
SeedDigits == 2
\* number of kernel calls made on one accumulator without zeroing it
MaxCalls == 2

---------------------------------------------------------------------------
(* Input values.  fill_random / init_random_matrix assign each element a   *)
(* value of [-1, 1]; the model draws the values -1, 0, 1 and enumerates    *)
(* the fills by a seed: the t-th value drawn is a base-3 digit of the seed, *)
(* shifted by one each time the digits have all been used.                 *)

Seeds == 0 .. (3 ^ SeedDigits - 1)

Drawn(seed, t) ==
    (((seed \div (3 ^ (t % SeedDigits))) + (t \div SeedDigits)) % 3) - 1

---------------------------------------------------------------------------
(* The C++ Matrix class: m, n and a row-major buffer of m*n elements.      *)

\* Matrix(rows, cols): the vector is value-initialised, every element 0.
Matrix(rows, cols) ==
    [m |-> rows, n |-> cols, data |-> [p \in 0 .. (rows * cols - 1) |-> 0]]

\* operator() with column-major indexing
At_column_major(M, i, j) == M.data[j * M.m + i]

\* operator()(i, j): data[i * n + j]
At(M, i, j) == M.data[i * M.n + j]

\* fill_random: every element of data gets a drawn value (draws t0, t0+1, ..)
fill_random(M, seed, t0) ==
    [M EXCEPT !.data = [p \in DOMAIN M.data |-> Drawn(seed, t0 + p)]]

\* Sequencing: Then({F(T) : T \in {e}}) is F applied to the value of e.  The
\* statement e is carried out before what follows it, as in the source.
Then(s) == CHOOSE v \in s : TRUE

\* The accumulator a kernel works on, with the updates made so far.
Acc(M) == [C |-> M, log |-> <<>>]

\* Update with = written for +=: the element is overwritten
Update_overwriting(S, MA, MB, i, j, k) ==
    [C   |-> [S.C EXCEPT !.data[i * S.C.n + j] = At(MA, i, k) * At(MB, k, j)],
     log |-> Append(S.log, <<i, j, k>>)]

\* C(i, j) += A(i, k) * B(k, j)
Update(S, MA, MB, i, j, k) ==
    [C   |-> [S.C EXCEPT !.data[i * S.C.n + j] = @ + At(MA, i, k) * At(MB, k, j)],
     log |-> Append(S.log, <<i, j, k>>)]

---------------------------------------------------------------------------
(* The six orderings (gemm.cpp).  A loop                                   *)
(*     for (v = lo; v < hi; v += step) body                                *)
(* is the operator f_loop_v: while v < hi it runs the body on S and goes   *)
(* on with v + step, and it returns S otherwise.                           *)

RECURSIVE gemm_ijk_loop_k(_, _, _, _, _, _)
gemm_ijk_loop_k(MA, MB, S, i, j, k) ==
    IF k < MA.n
    THEN Then({gemm_ijk_loop_k(MA, MB, T, i, j, k + 1) :
               T \in {Update(S, MA, MB, i, j, k)}})
    ELSE S

RECURSIVE gemm_ijk_loop_j(_, _, _, _, _)
gemm_ijk_loop_j(MA, MB, S, i, j) ==
    IF j < MB.n
    THEN Then({gemm_ijk_loop_j(MA, MB, T, i, j + 1) :
               T \in {gemm_ijk_loop_k(MA, MB, S, i, j, 0)}})
    ELSE S

RECURSIVE gemm_ijk_loop_i(_, _, _, _)
gemm_ijk_loop_i(MA, MB, S, i) ==
    IF i < MA.m
    THEN Then({gemm_ijk_loop_i(MA, MB, T, i + 1) :
               T \in {gemm_ijk_loop_j(MA, MB, S, i, 0)}})
    ELSE S

\* gemm_ijk that returns at once when the rows of B are not the columns of A
gemm_ijk_validating(MA, MB, S) ==
    IF MA.n = MB.m THEN gemm_ijk_loop_i(MA, MB, S, 0) ELSE S

gemm_ijk(MA, MB, S) ==
    gemm_ijk_loop_i(MA, MB, S, 0)

RECURSIVE gemm_jik_loop_k(_, _, _, _, _, _)
gemm_jik_loop_k(MA, MB, S, j, i, k) ==
    IF k < MA.n
    THEN Then({gemm_jik_loop_k(MA, MB, T, j, i, k + 1) :
               T \in {Update(S, MA, MB, i, j, k)}})
    ELSE S

RECURSIVE gemm_jik_loop_i(_, _, _, _, _)
gemm_jik_loop_i(MA, MB, S, j, i) ==
    IF i < MA.m
    THEN Then({gemm_jik_loop_i(MA, MB, T, j, i + 1) :
               T \in {gemm_jik_loop_k(MA, MB, S, j, i, 0)}})
    ELSE S

RECURSIVE gemm_jik_loop_j(_, _, _, _)
gemm_jik_loop_j(MA, MB, S, j) ==
    IF j < MB.n
    THEN Then({gemm_jik_loop_j(MA, MB, T, j + 1) :
               T \in {gemm_jik_loop_i(MA, MB, S, j, 0)}})
    ELSE S

\* gemm_jik running the loops of gemm_ijk
gemm_jik_as_ijk(MA, MB, S) ==
    gemm_ijk(MA, MB, S)

gemm_jik(MA, MB, S) ==
    gemm_jik_loop_j(MA, MB, S, 0)

RECURSIVE gemm_ikj_loop_j(_, _, _, _, _, _)
gemm_ikj_loop_j(MA, MB, S, i, k, j) ==
    IF j < MB.n
    THEN Then({gemm_ikj_loop_j(MA, MB, T, i, k, j + 1) :
               T \in {Update(S, MA, MB, i, j, k)}})
    ELSE S

RECURSIVE gemm_ikj_loop_k(_, _, _, _, _)
gemm_ikj_loop_k(MA, MB, S, i, k) ==
    IF k < MA.n
    THEN Then({gemm_ikj_loop_k(MA, MB, T, i, k + 1) :
               T \in {gemm_ikj_loop_j(MA, MB, S, i, k, 0)}})
    ELSE S

RECURSIVE gemm_ikj_loop_i(_, _, _, _)
gemm_ikj_loop_i(MA, MB, S, i) ==
    IF i < MA.m
    THEN Then({gemm_ikj_loop_i(MA, MB, T, i + 1) :
               T \in {gemm_ikj_loop_k(MA, MB, S, i, 0)}})
    ELSE S

gemm_ikj(MA, MB, S) ==
    gemm_ikj_loop_i(MA, MB, S, 0)

RECURSIVE gemm_jki_loop_i(_, _, _, _, _, _)
gemm_jki_loop_i(MA, MB, S, j, k, i) ==
    IF i < MA.m
    THEN Then({gemm_jki_loop_i(MA, MB, T, j, k, i + 1) :
               T \in {Update(S, MA, MB, i, j, k)}})
    ELSE S

RECURSIVE gemm_jki_loop_k(_, _, _, _, _)
gemm_jki_loop_k(MA, MB, S, j, k) ==
    IF k < MA.n
    THEN Then({gemm_jki_loop_k(MA, MB, T, j, k + 1) :
               T \in {gemm_jki_loop_i(MA, MB, S, j, k, 0)}})
    ELSE S

RECURSIVE gemm_jki_loop_j(_, _, _, _)
gemm_jki_loop_j(MA, MB, S, j) ==
    IF j < MB.n
    THEN Then({gemm_jki_loop_j(MA, MB, T, j + 1) :
               T \in {gemm_jki_loop_k(MA, MB, S, j, 0)}})
    ELSE S

gemm_jki(MA, MB, S) ==
    gemm_jki_loop_j(MA, MB, S, 0)

RECURSIVE gemm_kij_loop_j(_, _, _, _, _, _)
gemm_kij_loop_j(MA, MB, S, k, i, j) ==
    IF j < MB.n
    THEN Then({gemm_kij_loop_j(MA, MB, T, k, i, j + 1) :
               T \in {Update(S, MA, MB, i, j, k)}})
    ELSE S

RECURSIVE gemm_kij_loop_i(_, _, _, _, _)
gemm_kij_loop_i(MA, MB, S, k, i) ==
    IF i < MA.m
    THEN Then({gemm_kij_loop_i(MA, MB, T, k, i + 1) :
               T \in {gemm_kij_loop_j(MA, MB, S, k, i, 0)}})
    ELSE S

RECURSIVE gemm_kij_loop_k(_, _, _, _)
gemm_kij_loop_k(MA, MB, S, k) ==
    IF k < MA.n
    THEN Then({gemm_kij_loop_k(MA, MB, T, k + 1) :
               T \in {gemm_kij_loop_i(MA, MB, S, k, 0)}})
    ELSE S

gemm_kij(MA, MB, S) ==
    gemm_kij_loop_k(MA, MB, S, 0)

RECURSIVE gemm_kji_loop_i(_, _, _, _, _, _)
gemm_kji_loop_i(MA, MB, S, k, j, i) ==
    IF i < MA.m
    THEN Then({gemm_kji_loop_i(MA, MB, T, k, j, i + 1) :
               T \in {Update(S, MA, MB, i, j, k)}})
    ELSE S

RECURSIVE gemm_kji_loop_j(_, _, _, _, _)
gemm_kji_loop_j(MA, MB, S, k, j) ==
    IF j < MB.n
    THEN Then({gemm_kji_loop_j(MA, MB, T, k, j + 1) :
               T \in {gemm_kji_loop_i(MA, MB, S, k, j, 0)}})
    ELSE S

RECURSIVE gemm_kji_loop_k(_, _, _, _)
gemm_kji_loop_k(MA, MB, S, k) ==
    IF k < MA.n
    THEN Then({gemm_kji_loop_k(MA, MB, T, k + 1) :
               T \in {gemm_kji_loop_j(MA, MB, S, k, 0)}})
    ELSE S

\* gemm_kji with the k loop started at 1, as in the 1-based textbook loops
gemm_kji_from_one(MA, MB, S) ==
    gemm_kji_loop_k(MA, MB, S, 1)

gemm_kji(MA, MB, S) ==
    gemm_kji_loop_k(MA, MB, S, 0)

---------------------------------------------------------------------------
(* The blocked kernel and its control (blocked_gemm.cpp).                  *)

\* std::min
Min(a, b) == IF b < a THEN b ELSE a

\* the ikj control of blocked_gemm.cpp
RECURSIVE gemm_ikj_control_loop_j(_, _, _, _, _, _)
gemm_ikj_control_loop_j(MA, MB, S, i, k, j) ==
    IF j < MB.n
    THEN Then({gemm_ikj_control_loop_j(MA, MB, T, i, k, j + 1) :
               T \in {Update(S, MA, MB, i, j, k)}})
    ELSE S

RECURSIVE gemm_ikj_control_loop_k(_, _, _, _, _)
gemm_ikj_control_loop_k(MA, MB, S, i, k) ==
    IF k < MA.n
    THEN Then({gemm_ikj_control_loop_k(MA, MB, T, i, k + 1) :
               T \in {gemm_ikj_control_loop_j(MA, MB, S, i, k, 0)}})
    ELSE S

RECURSIVE gemm_ikj_control_loop_i(_, _, _, _)
gemm_ikj_control_loop_i(MA, MB, S, i) ==
    IF i < MA.m
    THEN Then({gemm_ikj_control_loop_i(MA, MB, T, i + 1) :
               T \in {gemm_ikj_control_loop_k(MA, MB, S, i, 0)}})
    ELSE S

gemm_ikj_control(MA, MB, S) ==
    gemm_ikj_control_loop_i(MA, MB, S, 0)

RECURSIVE inner_block_inner_loop_loop_j(_, _, _, _, _, _, _)
inner_block_inner_loop_loop_j(MA, MB, S, i, k, j_max, j) ==
    IF j < j_max
    THEN Then({inner_block_inner_loop_loop_j(MA, MB, T, i, k, j_max, j + 1) :
               T \in {Update(S, MA, MB, i, j, k)}})
    ELSE S

\* inner_block_inner_loop with j <= j_max written for j < j_max
inner_block_inner_loop_inclusive(MA, MB, S, i, k, jj, j_max) ==
    inner_block_inner_loop_loop_j(MA, MB, S, i, k, j_max + 1, jj)

\* inner_block_inner_loop with j started at 0 and not at the tile's column jj
inner_block_inner_loop_from_zero(MA, MB, S, i, k, jj, j_max) ==
    inner_block_inner_loop_loop_j(MA, MB, S, i, k, j_max, 0)

inner_block_inner_loop(MA, MB, S, i, k, jj, j_max) ==
    inner_block_inner_loop_loop_j(MA, MB, S, i, k, j_max, jj)

RECURSIVE inner_block_middle_loop_loop_k(_, _, _, _, _, _, _, _)
inner_block_middle_loop_loop_k(MA, MB, S, i, k_max, j_max, jj, k) ==
    IF k < k_max
    THEN Then({inner_block_middle_loop_loop_k(MA, MB, T, i, k_max, j_max, jj, k + 1) :
               T \in {inner_block_inner_loop(MA, MB, S, i, k, jj, j_max)}})
    ELSE S

inner_block_middle_loop(MA, MB, S, i, kk, k_max, j_max, jj) ==
    inner_block_middle_loop_loop_k(MA, MB, S, i, k_max, j_max, jj, kk)

RECURSIVE inner_block_outer_loop_loop_i(_, _, _, _, _, _, _, _, _)
inner_block_outer_loop_loop_i(MA, MB, S, kk, jj, i_max, j_max, k_max, i) ==
    IF i < i_max
    THEN Then({inner_block_outer_loop_loop_i(MA, MB, T, kk, jj, i_max, j_max, k_max, i + 1) :
               T \in {inner_block_middle_loop(MA, MB, S, i, kk, k_max, j_max, jj)}})
    ELSE S

inner_block_outer_loop(MA, MB, S, ii, kk, jj, i_max, j_max, k_max) ==
    inner_block_outer_loop_loop_i(MA, MB, S, kk, jj, i_max, j_max, k_max, ii)

\* tile_multiply that leaves out a tile the block does not fill in k
tile_multiply_full_only(MA, MB, S, ii, jj, kk, block_size, m, n, r) ==
    IF kk + block_size <= r
    THEN inner_block_outer_loop(MA, MB, S, ii, kk, jj,
                                Min(ii + block_size, m), Min(jj + block_size, n),
                                kk + block_size)
    ELSE S

\* the body of the kk loop: the clamped tile bounds and the product of the tile
tile_multiply(MA, MB, S, ii, jj, kk, block_size, m, n, r) ==
    LET i_max == Min(ii + block_size, m)
        j_max == Min(jj + block_size, n)
        k_max == Min(kk + block_size, r)
    IN  inner_block_outer_loop(MA, MB, S, ii, kk, jj, i_max, j_max, k_max)

RECURSIVE outer_block_inner_loop_loop_kk(_, _, _, _, _, _, _, _, _, _)
outer_block_inner_loop_loop_kk(MA, MB, S, ii, jj, block_size, m, n, r, kk) ==
    IF kk < r
    THEN Then({outer_block_inner_loop_loop_kk(MA, MB, T, ii, jj, block_size, m, n, r, kk + block_size) :
               T \in {tile_multiply(MA, MB, S, ii, jj, kk, block_size, m, n, r)}})
    ELSE S

outer_block_inner_loop(MA, MB, S, ii, jj, block_size, m, n, r) ==
    outer_block_inner_loop_loop_kk(MA, MB, S, ii, jj, block_size, m, n, r, 0)

RECURSIVE outer_block_middle_loop_loop_jj(_, _, _, _, _, _, _, _, _)
outer_block_middle_loop_loop_jj(MA, MB, S, ii, block_size, m, n, r, jj) ==
    IF jj < n
    THEN Then({outer_block_middle_loop_loop_jj(MA, MB, T, ii, block_size, m, n, r, jj + block_size) :
               T \in {outer_block_inner_loop(MA, MB, S, ii, jj, block_size, m, n, r)}})
    ELSE S

outer_block_middle_loop(MA, MB, S, ii, block_size, m, n, r) ==
    outer_block_middle_loop_loop_jj(MA, MB, S, ii, block_size, m, n, r, 0)

RECURSIVE outer_block_outer_loop_loop_ii(_, _, _, _, _, _, _, _)
outer_block_outer_loop_loop_ii(MA, MB, S, block_size, m, n, r, ii) ==
    IF ii < m
    THEN Then({outer_block_outer_loop_loop_ii(MA, MB, T, block_size, m, n, r, ii + block_size) :
               T \in {outer_block_middle_loop(MA, MB, S, ii, block_size, m, n, r)}})
    ELSE S

outer_block_outer_loop(MA, MB, S, block_size, m, n, r) ==
    outer_block_outer_loop_loop_ii(MA, MB, S, block_size, m, n, r, 0)

\* gemm_blocked working with half the block size it is given
gemm_blocked_halved(MA, MB, S, block_size) ==
    outer_block_outer_loop(MA, MB, S, (block_size + 1) \div 2, MA.m, MB.n, MA.n)

\* m = A.m, n = B.n, r = A.n
gemm_blocked(MA, MB, S, block_size) ==
    outer_block_outer_loop(MA, MB, S, block_size, MA.m, MB.n, MA.n)

gemm_blocked_32(MA, MB, S) == gemm_blocked(MA, MB, S, 32)

gemm_blocked_64(MA, MB, S) == gemm_blocked(MA, MB, S, 64)

gemm_blocked_128(MA, MB, S) == gemm_blocked(MA, MB, S, 128)

gemm_blocked_256(MA, MB, S) == gemm_blocked(MA, MB, S, 256)

---------------------------------------------------------------------------
(* The C suite: struct Matrix {data, rows, cols} and the MAT macro         *)
(* (matrix_types.h, matrix_utils.c).                                       *)

\* create_matrix with calloc(rows, ..) written for calloc(rows * cols, ..)
create_matrix_short(rows, cols) ==
    [rows |-> rows, cols |-> cols, data |-> [p \in 0 .. (rows - 1) |-> 0]]

\* create_matrix: calloc gives rows*cols zeros
create_matrix(rows, cols) ==
    [rows |-> rows, cols |-> cols, data |-> [p \in 0 .. (rows * cols - 1) |-> 0]]

\* init_random_matrix of the single-file program: every one of the rows*cols
\* elements gets the next value of the process-wide generator
init_random_matrix(M, seed, t0) ==
    [M EXCEPT !.data = [p \in DOMAIN M.data |-> Drawn(seed, t0 + p)]]

\* zero_matrix: memset of rows*cols doubles
zero_matrix(M) == [M EXCEPT !.data = [p \in DOMAIN M.data |-> 0]]

\* MAT(m, i, j): (m)->data[(i) * (m)->cols + (j)]
MAT(M, i, j) == M.data[i * M.cols + j]

\* MAT(C, i, j) += v, the update belonging to the index triple (i, j, k)
MatAdd(S, i, j, k, v) ==
    [C   |-> [S.C EXCEPT !.data[i * S.C.cols + j] = @ + v],
     log |-> Append(S.log, <<i, j, k>>)]

(* matmul_basic.c *)

RECURSIVE inner_dot_product_loop_k(_, _, _, _, _, _, _)
inner_dot_product_loop_k(S, MA, MB, i, j, r, k) ==
    IF k < r
    THEN Then({inner_dot_product_loop_k(T, MA, MB, i, j, r, k + 1) :
               T \in {MatAdd(S, i, j, k, MAT(MA, i, k) * MAT(MB, k, j))}})
    ELSE S

inner_dot_product(S, MA, MB, i, j, r) ==
    inner_dot_product_loop_k(S, MA, MB, i, j, r, 0)

RECURSIVE inner_saxpy_column_loop_i(_, _, _, _, _, _, _)
inner_saxpy_column_loop_i(S, MA, j, k, m, b_kj, i) ==
    IF i < m
    THEN Then({inner_saxpy_column_loop_i(T, MA, j, k, m, b_kj, i + 1) :
               T \in {MatAdd(S, i, j, k, MAT(MA, i, k) * b_kj)}})
    ELSE S

\* inner_saxpy_column with the i loop started at 1
inner_saxpy_column_from_one(S, MA, MB, j, k, m) ==
    LET b_kj == MAT(MB, k, j)
    IN  inner_saxpy_column_loop_i(S, MA, j, k, m, b_kj, 1)

inner_saxpy_column(S, MA, MB, j, k, m) ==
    LET b_kj == MAT(MB, k, j)
    IN  inner_saxpy_column_loop_i(S, MA, j, k, m, b_kj, 0)

RECURSIVE inner_saxpy_row_loop_j(_, _, _, _, _, _, _)
inner_saxpy_row_loop_j(S, MB, i, k, n, a_ik, j) ==
    IF j < n
    THEN Then({inner_saxpy_row_loop_j(T, MB, i, k, n, a_ik, j + 1) :
               T \in {MatAdd(S, i, j, k, a_ik * MAT(MB, k, j))}})
    ELSE S

inner_saxpy_row(S, MA, MB, i, k, n) ==
    LET a_ik == MAT(MA, i, k)
    IN  inner_saxpy_row_loop_j(S, MB, i, k, n, a_ik, 0)

RECURSIVE matmul_ijk_loop_j(_, _, _, _, _, _, _)
matmul_ijk_loop_j(S, MA, MB, r, n, i, j) ==
    IF j < n
    THEN Then({matmul_ijk_loop_j(T, MA, MB, r, n, i, j + 1) :
               T \in {inner_dot_product(S, MA, MB, i, j, r)}})
    ELSE S

RECURSIVE matmul_ijk_loop_i(_, _, _, _, _, _, _)
matmul_ijk_loop_i(S, MA, MB, m, r, n, i) ==
    IF i < m
    THEN Then({matmul_ijk_loop_i(T, MA, MB, m, r, n, i + 1) :
               T \in {matmul_ijk_loop_j(S, MA, MB, r, n, i, 0)}})
    ELSE S

matmul_ijk(S, MA, MB) ==
    LET m == MA.rows
        r == MA.cols
        n == MB.cols
    IN  matmul_ijk_loop_i(S, MA, MB, m, r, n, 0)

RECURSIVE matmul_jik_loop_i(_, _, _, _, _, _, _)
matmul_jik_loop_i(S, MA, MB, m, r, j, i) ==
    IF i < m
    THEN Then({matmul_jik_loop_i(T, MA, MB, m, r, j, i + 1) :
               T \in {inner_dot_product(S, MA, MB, i, j, r)}})
    ELSE S

RECURSIVE matmul_jik_loop_j(_, _, _, _, _, _, _)
matmul_jik_loop_j(S, MA, MB, m, r, n, j) ==
    IF j < n
    THEN Then({matmul_jik_loop_j(T, MA, MB, m, r, n, j + 1) :
               T \in {matmul_jik_loop_i(S, MA, MB, m, r, j, 0)}})
    ELSE S

matmul_jik(S, MA, MB) ==
    LET m == MA.rows
        r == MA.cols
        n == MB.cols
    IN  matmul_jik_loop_j(S, MA, MB, m, r, n, 0)

RECURSIVE matmul_saxpy_loop_k(_, _, _, _, _, _, _)
matmul_saxpy_loop_k(S, MA, MB, m, r, j, k) ==
    IF k < r
    THEN Then({matmul_saxpy_loop_k(T, MA, MB, m, r, j, k + 1) :
               T \in {inner_saxpy_column(S, MA, MB, j, k, m)}})
    ELSE S

RECURSIVE matmul_saxpy_loop_j(_, _, _, _, _, _, _)
matmul_saxpy_loop_j(S, MA, MB, m, r, n, j) ==
    IF j < n
    THEN Then({matmul_saxpy_loop_j(T, MA, MB, m, r, n, j + 1) :
               T \in {matmul_saxpy_loop_k(S, MA, MB, m, r, j, 0)}})
    ELSE S

matmul_saxpy(S, MA, MB) ==
    LET m == MA.rows
        r == MA.cols
        n == MB.cols
    IN  matmul_saxpy_loop_j(S, MA, MB, m, r, n, 0)

RECURSIVE matmul_ikj_loop_k(_, _, _, _, _, _, _)
matmul_ikj_loop_k(S, MA, MB, r, n, i, k) ==
    IF k < r
    THEN Then({matmul_ikj_loop_k(T, MA, MB, r, n, i, k + 1) :
               T \in {inner_saxpy_row(S, MA, MB, i, k, n)}})
    ELSE S

RECURSIVE matmul_ikj_loop_i(_, _, _, _, _, _, _)
matmul_ikj_loop_i(S, MA, MB, m, r, n, i) ==
    IF i < m
    THEN Then({matmul_ikj_loop_i(T, MA, MB, m, r, n, i + 1) :
               T \in {matmul_ikj_loop_k(S, MA, MB, r, n, i, 0)}})
    ELSE S

matmul_ikj(S, MA, MB) ==
    LET m == MA.rows
        r == MA.cols
        n == MB.cols
    IN  matmul_ikj_loop_i(S, MA, MB, m, r, n, 0)

RECURSIVE matmul_outer_product_loop_j(_, _, _, _, _, _, _)
matmul_outer_product_loop_j(S, MA, MB, n, k, i, j) ==
    IF j < n
    THEN Then({matmul_outer_product_loop_j(T, MA, MB, n, k, i, j + 1) :
               T \in {MatAdd(S, i, j, k, MAT(MA, i, k) * MAT(MB, k, j))}})
    ELSE S

RECURSIVE matmul_outer_product_loop_i(_, _, _, _, _, _, _)
matmul_outer_product_loop_i(S, MA, MB, m, n, k, i) ==
    IF i < m
    THEN Then({matmul_outer_product_loop_i(T, MA, MB, m, n, k, i + 1) :
               T \in {matmul_outer_product_loop_j(S, MA, MB, n, k, i, 0)}})
    ELSE S

RECURSIVE matmul_outer_product_loop_k(_, _, _, _, _, _, _)
matmul_outer_product_loop_k(S, MA, MB, m, r, n, k) ==
    IF k < r
    THEN Then({matmul_outer_product_loop_k(T, MA, MB, m, r, n, k + 1) :
               T \in {matmul_outer_product_loop_i(S, MA, MB, m, n, k, 0)}})
    ELSE S

matmul_outer_product(S, MA, MB) ==
    LET m == MA.rows
        r == MA.cols
        n == MB.cols
    IN  matmul_outer_product_loop_k(S, MA, MB, m, r, n, 0)

RECURSIVE matmul_kij_loop_i(_, _, _, _, _, _, _)
matmul_kij_loop_i(S, MA, MB, m, n, k, i) ==
    IF i < m
    THEN Then({matmul_kij_loop_i(T, MA, MB, m, n, k, i + 1) :
               T \in {inner_saxpy_row(S, MA, MB, i, k, n)}})
    ELSE S

RECURSIVE matmul_kij_loop_k(_, _, _, _, _, _, _)
matmul_kij_loop_k(S, MA, MB, m, r, n, k) ==
    IF k < r
    THEN Then({matmul_kij_loop_k(T, MA, MB, m, r, n, k + 1) :
               T \in {matmul_kij_loop_i(S, MA, MB, m, n, k, 0)}})
    ELSE S

matmul_kij(S, MA, MB) ==
    LET m == MA.rows
        r == MA.cols
        n == MB.cols
    IN  matmul_kij_loop_k(S, MA, MB, m, r, n, 0)

(* matmul_optimized.c *)

RECURSIVE matmul_ikj_inlined_loop_j(_, _, _, _, _, _, _)
matmul_ikj_inlined_loop_j(S, MB, n, i, k, a_ik, j) ==
    IF j < n
    THEN Then({matmul_ikj_inlined_loop_j(T, MB, n, i, k, a_ik, j + 1) :
               T \in {MatAdd(S, i, j, k, a_ik * MAT(MB, k, j))}})
    ELSE S

RECURSIVE matmul_ikj_inlined_loop_k(_, _, _, _, _, _, _)
matmul_ikj_inlined_loop_k(S, MA, MB, r, n, i, k) ==
    IF k < r
    THEN LET a_ik == MAT(MA, i, k)
         IN  Then({matmul_ikj_inlined_loop_k(T, MA, MB, r, n, i, k + 1) :
                   T \in {matmul_ikj_inlined_loop_j(S, MB, n, i, k, a_ik, 0)}})
    ELSE S

RECURSIVE matmul_ikj_inlined_loop_i(_, _, _, _, _, _, _)
matmul_ikj_inlined_loop_i(S, MA, MB, m, r, n, i) ==
    IF i < m
    THEN Then({matmul_ikj_inlined_loop_i(T, MA, MB, m, r, n, i + 1) :
               T \in {matmul_ikj_inlined_loop_k(S, MA, MB, r, n, i, 0)}})
    ELSE S

matmul_ikj_inlined(S, MA, MB) ==
    LET m == MA.rows
        r == MA.cols
        n == MB.cols
    IN  matmul_ikj_inlined_loop_i(S, MA, MB, m, r, n, 0)

(* matmul_basic.c of formatted_file: matmul_ikj_inlined in three levels.   *)
(* saxpy_blas works on the addresses &MAT(C, row_i, 0) and &MAT(B, k, 0),  *)
(* here offsets into the two buffers; the update it makes is read back     *)
(* from the offsets.                                                       *)

RECURSIVE saxpy_blas_loop_i(_, _, _, _, _, _, _)
saxpy_blas_loop_i(S, MB, yy, xx, n, alpha, i) ==
    IF i < n
    THEN Then({saxpy_blas_loop_i(T, MB, yy, xx, n, alpha, i + 1) :
               T \in {[C   |-> [S.C EXCEPT !.data[yy + i] = @ + alpha * MB.data[xx + i]],
                       log |-> Append(S.log, <<(yy + i) \div S.C.cols, (yy + i) % S.C.cols,
                                               (xx + i) \div MB.cols>>)]}})
    ELSE S

\* y = y + alpha * x
saxpy_blas(S, MB, yy, xx, n, alpha) ==
    saxpy_blas_loop_i(S, MB, yy, xx, n, alpha, 0)

RECURSIVE process_matrix_row_loop_k(_, _, _, _, _)
process_matrix_row_loop_k(S, MA, MB, row_i, k) ==
    IF k < MA.cols
    THEN LET a_ik == MAT(MA, row_i, k)
             c_row == row_i * S.C.cols + 0
             b_row == k * MB.cols + 0
         IN  Then({process_matrix_row_loop_k(T, MA, MB, row_i, k + 1) :
                   T \in {saxpy_blas(S, MB, c_row, b_row, MB.cols, a_ik)}})
    ELSE S

process_matrix_row(S, MA, MB, row_i) ==
    process_matrix_row_loop_k(S, MA, MB, row_i, 0)

RECURSIVE matmul_ikj_inlined_levels_loop_i(_, _, _, _)
matmul_ikj_inlined_levels_loop_i(S, MA, MB, i) ==
    IF i < MA.rows
    THEN Then({matmul_ikj_inlined_levels_loop_i(T, MA, MB, i + 1) :
               T \in {process_matrix_row(S, MA, MB, i)}})
    ELSE S

\* the three levels run in the order of matmul_kij
matmul_ikj_inlined_levels_as_kij(S, MA, MB) ==
    matmul_kij(S, MA, MB)

\* matmul_ikj_inlined as formatted_file/matmul_basic.c defines it
matmul_ikj_inlined_levels(S, MA, MB) ==
    matmul_ikj_inlined_levels_loop_i(S, MA, MB, 0)

RECURSIVE matmul_blocked_loop_j(_, _, _, _, _, _, _)
matmul_blocked_loop_j(S, MB, j_end, i, k, a_ik, j) ==
    IF j < j_end
    THEN Then({matmul_blocked_loop_j(T, MB, j_end, i, k, a_ik, j + 1) :
               T \in {MatAdd(S, i, j, k, a_ik * MAT(MB, k, j))}})
    ELSE S

RECURSIVE matmul_blocked_loop_k(_, _, _, _, _, _, _, _)
matmul_blocked_loop_k(S, MA, MB, jj, j_end, k_end, i, k) ==
    IF k < k_end
    THEN LET a_ik == MAT(MA, i, k)
         IN  Then({matmul_blocked_loop_k(T, MA, MB, jj, j_end, k_end, i, k + 1) :
                   T \in {matmul_blocked_loop_j(S, MB, j_end, i, k, a_ik, jj)}})
    ELSE S

RECURSIVE matmul_blocked_loop_i(_, _, _, _, _, _, _, _, _)
matmul_blocked_loop_i(S, MA, MB, jj, kk, i_end, j_end, k_end, i) ==
    IF i < i_end
    THEN Then({matmul_blocked_loop_i(T, MA, MB, jj, kk, i_end, j_end, k_end, i + 1) :
               T \in {matmul_blocked_loop_k(S, MA, MB, jj, j_end, k_end, i, kk)}})
    ELSE S

\* the tile body run only for a tile the block fills in i
matmul_blocked_tile_full_only(S, MA, MB, block_size, m, r, n, ii, jj, kk) ==
    IF ii + block_size <= m
    THEN matmul_blocked_loop_i(S, MA, MB, jj, kk, ii + block_size,
                               IF jj + block_size < n THEN jj + block_size ELSE n,
                               IF kk + block_size < r THEN kk + block_size ELSE r, ii)
    ELSE S

\* the body of the kk loop: the block boundaries and the product of the blocks
matmul_blocked_tile(S, MA, MB, block_size, m, r, n, ii, jj, kk) ==
    LET i_end == IF ii + block_size < m THEN ii + block_size ELSE m
        j_end == IF jj + block_size < n THEN jj + block_size ELSE n
        k_end == IF kk + block_size < r THEN kk + block_size ELSE r
    IN  matmul_blocked_loop_i(S, MA, MB, jj, kk, i_end, j_end, k_end, ii)

RECURSIVE matmul_blocked_loop_kk(_, _, _, _, _, _, _, _, _, _)
matmul_blocked_loop_kk(S, MA, MB, block_size, m, r, n, ii, jj, kk) ==
    IF kk < r
    THEN Then({matmul_blocked_loop_kk(T, MA, MB, block_size, m, r, n, ii, jj, kk + block_size) :
               T \in {matmul_blocked_tile(S, MA, MB, block_size, m, r, n, ii, jj, kk)}})
    ELSE S

RECURSIVE matmul_blocked_loop_jj(_, _, _, _, _, _, _, _, _)
matmul_blocked_loop_jj(S, MA, MB, block_size, m, r, n, ii, jj) ==
    IF jj < n
    THEN Then({matmul_blocked_loop_jj(T, MA, MB, block_size, m, r, n, ii, jj + block_size) :
               T \in {matmul_blocked_loop_kk(S, MA, MB, block_size, m, r, n, ii, jj, 0)}})
    ELSE S

RECURSIVE matmul_blocked_loop_ii(_, _, _, _, _, _, _, _)
matmul_blocked_loop_ii(S, MA, MB, block_size, m, r, n, ii) ==
    IF ii < m
    THEN Then({matmul_blocked_loop_ii(T, MA, MB, block_size, m, r, n, ii + block_size) :
               T \in {matmul_blocked_loop_jj(S, MA, MB, block_size, m, r, n, ii, 0)}})
    ELSE S

matmul_blocked(S, MA, MB, block_size) ==
    LET m == MA.rows
        r == MA.cols
        n == MB.cols
    IN  matmul_blocked_loop_ii(S, MA, MB, block_size, m, r, n, 0)

(* verification.c *)

\* fabs
fabs(v) == IF v < 0 THEN 0 - v ELSE v

RECURSIVE matrix_max_diff_loop_i(_, _, _, _)
matrix_max_diff_loop_i(MA, MB, max_diff, i) ==
    IF i < MA.rows * MA.cols
    THEN LET diff == fabs(MA.data[i] - MB.data[i])
         IN  Then({matrix_max_diff_loop_i(MA, MB, T, i + 1) :
                   T \in {IF diff > max_diff THEN diff ELSE max_diff}})
    ELSE max_diff

matrix_max_diff(MA, MB) == matrix_max_diff_loop_i(MA, MB, 0, 0)

\* max_diff < 1e-12 ? PASS : FAIL; on integers, below 1e-12 is at most 0
Report(max_diff) == IF max_diff <= 0 THEN "PASS" ELSE "FAIL"

\* names[] of verify_correctness
VariantNames == {"jik", "saxpy", "outer_product", "ikj", "kij", "ikj_inlined"}

\* funcs[test](C_test, A, B), and the blocked test that follows the loop
RunVariant(name, C_test, MA, MB) ==
    CASE name = "jik"           -> matmul_jik(Acc(C_test), MA, MB).C
      [] name = "saxpy"         -> matmul_saxpy(Acc(C_test), MA, MB).C
      [] name = "outer_product" -> matmul_outer_product(Acc(C_test), MA, MB).C
      [] name = "ikj"           -> matmul_ikj(Acc(C_test), MA, MB).C
      [] name = "kij"           -> matmul_kij(Acc(C_test), MA, MB).C
      [] name = "ikj_inlined"   -> matmul_ikj_inlined(Acc(C_test), MA, MB).C
      [] name = "blocked"       -> matmul_blocked(Acc(C_test), MA, MB, 64).C

\* what verify_correctness prints for each variant: C_test is zeroed before
\* each run, and its content is compared with C_ref
verify_correctness(MA, MB) ==
    LET C_ref  == matmul_ijk(Acc(create_matrix(MA.rows, MB.cols)), MA, MB).C
        C_test == create_matrix(MA.rows, MB.cols)
    IN  [name \in VariantNames \cup {"blocked"} |->
            Report(matrix_max_diff(C_ref, RunVariant(name, zero_matrix(C_test), MA, MB)))]

---------------------------------------------------------------------------
(* gaxpy.cpp: y = y + A*x, on the C++ Matrix and std::vector<double>.      *)

\* gaxpy_update with = written for +=
gaxpy_update_overwriting(vy, MA, vx, i, j) == [vy EXCEPT ![i] = At(MA, i, j) * vx[j]]

\* gaxpy_update with + written for *
gaxpy_update_adding(vy, MA, vx, i, j) == [vy EXCEPT ![i] = @ + At(MA, i, j) + vx[j]]

\* y[i] += A(i, j) * x[j]
gaxpy_update(vy, MA, vx, i, j) == [vy EXCEPT ![i] = @ + At(MA, i, j) * vx[j]]

RECURSIVE gaxpy_row_oriented_loop_j(_, _, _, _, _)
gaxpy_row_oriented_loop_j(MA, vx, vy, i, j) ==
    IF j < MA.n
    THEN Then({gaxpy_row_oriented_loop_j(MA, vx, T, i, j + 1) :
               T \in {gaxpy_update(vy, MA, vx, i, j)}})
    ELSE vy

RECURSIVE gaxpy_row_oriented_loop_i(_, _, _, _)
gaxpy_row_oriented_loop_i(MA, vx, vy, i) ==
    IF i < MA.m
    THEN Then({gaxpy_row_oriented_loop_i(MA, vx, T, i + 1) :
               T \in {gaxpy_row_oriented_loop_j(MA, vx, vy, i, 0)}})
    ELSE vy

\* gaxpy_row_oriented with the row loop started at 1
gaxpy_row_oriented_from_one(MA, vx, vy) ==
    gaxpy_row_oriented_loop_i(MA, vx, vy, 1)

gaxpy_row_oriented(MA, vx, vy) ==
    gaxpy_row_oriented_loop_i(MA, vx, vy, 0)

RECURSIVE gaxpy_column_oriented_loop_i(_, _, _, _, _)
gaxpy_column_oriented_loop_i(MA, vx, vy, j, i) ==
    IF i < MA.m
    THEN Then({gaxpy_column_oriented_loop_i(MA, vx, T, j, i + 1) :
               T \in {gaxpy_update(vy, MA, vx, i, j)}})
    ELSE vy

RECURSIVE gaxpy_column_oriented_loop_j(_, _, _, _)
gaxpy_column_oriented_loop_j(MA, vx, vy, j) ==
    IF j < MA.n
    THEN Then({gaxpy_column_oriented_loop_j(MA, vx, T, j + 1) :
               T \in {gaxpy_column_oriented_loop_i(MA, vx, vy, j, 0)}})
    ELSE vy

\* gaxpy_column_oriented with the column loop started at 1
gaxpy_column_oriented_from_one(MA, vx, vy) ==
    gaxpy_column_oriented_loop_j(MA, vx, vy, 1)

gaxpy_column_oriented(MA, vx, vy) ==
    gaxpy_column_oriented_loop_j(MA, vx, vy, 0)

---------------------------------------------------------------------------
(* Inputs of the gaxpy tests (test_gaxpy.cpp): the matrices and vectors    *)
(* the tests build, for every shape up to MaxVec x MaxVec.                 *)

MatrixKinds == {"iota", "identity", "zero", "random"}

\* A(i, j) = 1, 2, 3, ... in row-major order; the identity; all zeros; fill_random
TestMatrix(kind, rows, cols, seed) ==
    [m |-> rows, n |-> cols,
     data |-> [p \in 0 .. (rows * cols - 1) |->
                 CASE kind = "iota"     -> p + 1
                   [] kind = "identity" -> IF p \div cols = p % cols THEN 1 ELSE 0
                   [] kind = "zero"     -> 0
                   [] kind = "random"   -> Drawn(seed, p)]]

VectorKinds == {"zeros", "ones", "twos", "iota", "tens", "random"}

\* std::vector<double>(len, c) for c = 0, 1, 2; x[i] = i + 1; {10, 20, ..}; random
TestVector(kind, len, seed, t0) ==
    [i \in 0 .. (len - 1) |->
        CASE kind = "zeros"  -> 0
          [] kind = "ones"   -> 1
          [] kind = "twos"   -> 2
          [] kind = "iota"   -> i + 1
          [] kind = "tens"   -> 10 * (i + 1)
          [] kind = "random" -> Drawn(seed, t0 + i)]

---------------------------------------------------------------------------
(* Initial states: the operands are built and filled, the accumulator is   *)
(* as constructed (all zero), except for the gaxpy test that starts from   *)
(* y = {10, 20, ..}.                                                       *)

NoTile == [ii |-> 0, jj |-> 0, kk |-> 0, iters |-> 0]

Idle == pc = "idle" /\ tile = NoTile

\* no benchmark harness is running
NoBench == [harness |-> "none", phase |-> "none", warmup_runs |-> 0, test_runs |-> 0, run |-> 0]

\* no test or benchmark program is running
NoDriver ==
    [program |-> "none", at |-> 0, passed |-> 0, failed |-> 0, all_passed |-> TRUE,
     results |-> <<>>, output |-> <<>>, broken |-> {}, exited |-> FALSE, exit_code |-> 0]

Fresh ==
    /\ kernel = "none" /\ arg_block = 0 /\ calls = 0 /\ log = <<>> /\ verdict = <<>>
    /\ bench = NoBench /\ driver = NoDriver

InitGemm ==
    \E m \in 1 .. MaxDim, r \in 1 .. MaxDim, n \in 1 .. MaxDim, seed \in Seeds :
        /\ suite = "gemm"
        /\ A = fill_random(Matrix(m, r), seed, 0)
        /\ B = fill_random(Matrix(r, n), seed, m * r)
        /\ C = Matrix(m, n)
        /\ acc0 = C
        /\ x = <<>> /\ y = <<>>
        /\ Fresh /\ Idle

InitMatmul ==
    \E m \in 1 .. MaxDim, r \in 1 .. MaxDim, n \in 1 .. MaxDim, seed \in Seeds :
        /\ suite = "matmul"
        /\ A = init_random_matrix(create_matrix(m, r), seed, 0)
        /\ B = init_random_matrix(create_matrix(r, n), seed, m * r)
        /\ C = create_matrix(m, n)
        /\ acc0 = C
        /\ x = <<>> /\ y = <<>>
        /\ Fresh /\ Idle

InitGaxpy ==
    \E m \in 1 .. MaxVec, n \in 1 .. MaxVec, seed \in Seeds,
       ka \in MatrixKinds, kx \in VectorKinds \ {"tens"}, ky \in {"zeros", "tens"} :
        /\ suite = "gaxpy"
        /\ A = TestMatrix(ka, m, n, seed)
        /\ x = TestVector(kx, n, seed, m * n)
        /\ y = TestVector(ky, m, seed, 0)
        /\ acc0 = y
        /\ B = <<>> /\ C = <<>>
        /\ Fresh /\ Idle

Init == InitGemm \/ InitMatmul \/ InitGaxpy

---------------------------------------------------------------------------
(* Calls.  A call runs the whole kernel on the accumulator as it is: no    *)
(* caller of the suite zeroes it inside a call.                            *)

\* a multiply kernel returned R = [C, log]
Returned(name, bs, R) ==
    /\ C' = R.C
    /\ log' = R.log
    /\ acc0' = C
    /\ kernel' = name
    /\ arg_block' = bs
    /\ calls' = calls + 1
    /\ UNCHANGED <<bench, driver, suite, A, B, x, y, verdict, pc, tile>>

\* The callers of the suite hand an accumulator to one kernel only: the tests
\* build one per kernel, the benchmarks call one kernel on it again and again.
CanCall(s, name, bs) ==
    /\ suite = s /\ pc = "idle"
    /\ calls < MaxCalls
    /\ calls > 0 => kernel = name /\ arg_block = bs

Call_gemm_ijk == CanCall("gemm", "gemm_ijk", 0) /\ Returned("gemm_ijk", 0, gemm_ijk(A, B, Acc(C)))

Call_gemm_jik == CanCall("gemm", "gemm_jik", 0) /\ Returned("gemm_jik", 0, gemm_jik(A, B, Acc(C)))

Call_gemm_ikj == CanCall("gemm", "gemm_ikj", 0) /\ Returned("gemm_ikj", 0, gemm_ikj(A, B, Acc(C)))

Call_gemm_jki == CanCall("gemm", "gemm_jki", 0) /\ Returned("gemm_jki", 0, gemm_jki(A, B, Acc(C)))

Call_gemm_kij == CanCall("gemm", "gemm_kij", 0) /\ Returned("gemm_kij", 0, gemm_kij(A, B, Acc(C)))

Call_gemm_kji == CanCall("gemm", "gemm_kji", 0) /\ Returned("gemm_kji", 0, gemm_kji(A, B, Acc(C)))

Call_gemm_ikj_control ==
    CanCall("gemm", "gemm_ikj_control", 0) /\ Returned("gemm_ikj_control", 0, gemm_ikj_control(A, B, Acc(C)))

Call_gemm_blocked ==
    \E bs \in 1 .. MaxBlock :
        /\ CanCall("gemm", "gemm_blocked", bs)
        /\ Returned("gemm_blocked", bs, gemm_blocked(A, B, Acc(C), bs))

Call_gemm_blocked_32 ==
    CanCall("gemm", "gemm_blocked", 32) /\ Returned("gemm_blocked", 32, gemm_blocked_32(A, B, Acc(C)))

Call_gemm_blocked_64 ==
    CanCall("gemm", "gemm_blocked", 64) /\ Returned("gemm_blocked", 64, gemm_blocked_64(A, B, Acc(C)))

Call_gemm_blocked_128 ==
    CanCall("gemm", "gemm_blocked", 128) /\ Returned("gemm_blocked", 128, gemm_blocked_128(A, B, Acc(C)))

Call_gemm_blocked_256 ==
    CanCall("gemm", "gemm_blocked", 256) /\ Returned("gemm_blocked", 256, gemm_blocked_256(A, B, Acc(C)))

Call_matmul_ijk == CanCall("matmul", "matmul_ijk", 0) /\ Returned("matmul_ijk", 0, matmul_ijk(Acc(C), A, B))

Call_matmul_jik == CanCall("matmul", "matmul_jik", 0) /\ Returned("matmul_jik", 0, matmul_jik(Acc(C), A, B))

Call_matmul_saxpy ==
    CanCall("matmul", "matmul_saxpy", 0) /\ Returned("matmul_saxpy", 0, matmul_saxpy(Acc(C), A, B))

Call_matmul_ikj == CanCall("matmul", "matmul_ikj", 0) /\ Returned("matmul_ikj", 0, matmul_ikj(Acc(C), A, B))

Call_matmul_outer_product ==
    CanCall("matmul", "matmul_outer_product", 0)
    /\ Returned("matmul_outer_product", 0, matmul_outer_product(Acc(C), A, B))

Call_matmul_kij == CanCall("matmul", "matmul_kij", 0) /\ Returned("matmul_kij", 0, matmul_kij(Acc(C), A, B))

Call_matmul_ikj_inlined ==
    CanCall("matmul", "matmul_ikj_inlined", 0)
    /\ Returned("matmul_ikj_inlined", 0, matmul_ikj_inlined(Acc(C), A, B))

\* benchmark_blocked is run with 32, 64 and 128, verify_correctness with 64
Call_matmul_blocked ==
    \E bs \in (1 .. MaxBlock) \cup {32, 64, 128} :
        /\ CanCall("matmul", "matmul_blocked", bs)
        /\ Returned("matmul_blocked", bs, matmul_blocked(Acc(C), A, B, bs))

\* main calls verify_correctness(A, B) once the operands are filled, before
\* any benchmark; it works on its own C_ref and C_test
Verify ==
    /\ suite = "matmul" /\ pc = "idle"
    /\ calls = 0 /\ verdict = <<>>
    /\ verdict' = verify_correctness(A, B)
    /\ UNCHANGED <<bench, driver, suite, A, B, C, x, y, acc0, kernel, arg_block, calls, log, pc, tile>>

\* a gaxpy kernel that stores its sums into x where it has the index, not into y
ReturnedVector_into_x(name, v) ==
    /\ x' = [j \in DOMAIN x |-> IF j \in DOMAIN v THEN v[j] ELSE x[j]]
    /\ acc0' = y
    /\ kernel' = name
    /\ calls' = calls + 1
    /\ UNCHANGED <<bench, driver, suite, A, B, C, y, arg_block, log, verdict, pc, tile>>

\* a gaxpy kernel returned the vector v
ReturnedVector(name, v) ==
    /\ y' = v
    /\ acc0' = y
    /\ kernel' = name
    /\ calls' = calls + 1
    /\ UNCHANGED <<bench, driver, suite, A, B, C, x, arg_block, log, verdict, pc, tile>>

Call_gaxpy_row_oriented ==
    CanCall("gaxpy", "gaxpy_row_oriented", 0) /\ ReturnedVector("gaxpy_row_oriented", gaxpy_row_oriented(A, x, y))

Call_gaxpy_column_oriented ==
    CanCall("gaxpy", "gaxpy_column_oriented", 0)
    /\ ReturnedVector("gaxpy_column_oriented", gaxpy_column_oriented(A, x, y))

Next ==
    \/ Call_gemm_ijk \/ Call_gemm_jik \/ Call_gemm_ikj
    \/ Call_gemm_jki \/ Call_gemm_kij \/ Call_gemm_kji
    \/ Call_gemm_ikj_control
    \/ Call_gemm_blocked
    \/ Call_gemm_blocked_32 \/ Call_gemm_blocked_64
    \/ Call_gemm_blocked_128 \/ Call_gemm_blocked_256
    \/ Call_matmul_ijk \/ Call_matmul_jik \/ Call_matmul_saxpy \/ Call_matmul_ikj
    \/ Call_matmul_outer_product \/ Call_matmul_kij \/ Call_matmul_ikj_inlined
    \/ Call_matmul_blocked
    \/ Verify
    \/ Call_gaxpy_row_oriented \/ Call_gaxpy_column_oriented

Spec == Init /\ [][Next]_vars

---------------------------------------------------------------------------
(* The tile loops of gemm_blocked / matmul_blocked, one loop test at a     *)
(* time.  block_size is an int the kernels take as it comes: nothing in    *)
(* them tests it, so the caller's value, positive or not, drives           *)
(*     for (ii = 0; ii < m; ii += block_size)                              *)
(*       for (jj = 0; jj < n; jj += block_size)                            *)
(*         for (kk = 0; kk < r; kk += block_size) <product of the tile>    *)

\* tile products followed in a call whose block_size is not positive
MaxSpin == 4

BlockArgs == (0 - MaxBlock) .. MaxBlock

InitBlocked == InitGemm \/ InitMatmul

\* m, n, r as the kernel reads them from A and B
Dim_m == IF suite = "gemm" THEN A.m ELSE A.rows

Dim_n == IF suite = "gemm" THEN B.n ELSE B.cols

Dim_r == IF suite = "gemm" THEN A.n ELSE A.cols

\* the call is made: the first statement reached is the test of the ii loop
Blocked_call ==
    \E bs \in BlockArgs :
        /\ pc = "idle" /\ calls < MaxCalls
        /\ kernel' = IF suite = "gemm" THEN "gemm_blocked" ELSE "matmul_blocked"
        /\ arg_block' = bs
        /\ acc0' = C
        /\ log' = <<>>
        /\ pc' = "ii"
        /\ tile' = NoTile
        /\ UNCHANGED <<bench, driver, suite, A, B, C, x, y, calls, verdict>>

\* ii < m: enter the jj loop with jj = 0; otherwise the kernel returns
Blocked_loop_ii ==
    /\ pc = "ii"
    /\ IF tile.ii < Dim_m
       THEN pc' = "jj" /\ tile' = [tile EXCEPT !.jj = 0]
       ELSE pc' = "return" /\ tile' = tile
    /\ UNCHANGED <<bench, driver, suite, A, B, C, x, y, acc0, kernel, arg_block, calls, log, verdict>>

\* jj < n: enter the kk loop with kk = 0; otherwise ii += block_size
Blocked_loop_jj ==
    /\ pc = "jj"
    /\ IF tile.jj < Dim_n
       THEN pc' = "kk" /\ tile' = [tile EXCEPT !.kk = 0]
       ELSE pc' = "ii" /\ tile' = [tile EXCEPT !.ii = @ + arg_block]
    /\ UNCHANGED <<bench, driver, suite, A, B, C, x, y, acc0, kernel, arg_block, calls, log, verdict>>

\* the tile taken over the whole of j, whatever jj is
TileProduct_row_strip ==
    IF suite = "gemm"
    THEN inner_block_outer_loop(A, B, [C |-> C, log |-> log], tile.ii, tile.kk, 0,
                                Min(tile.ii + arg_block, Dim_m), Dim_n,
                                Min(tile.kk + arg_block, Dim_r))
    ELSE matmul_blocked_tile([C |-> C, log |-> log], A, B,
                             arg_block, Dim_m, Dim_r, Dim_n, tile.ii, tile.jj, tile.kk)

\* the product of the tile at (ii, jj, kk), on the accumulator as it is
TileProduct ==
    IF suite = "gemm"
    THEN tile_multiply(A, B, [C |-> C, log |-> log],
                       tile.ii, tile.jj, tile.kk, arg_block, Dim_m, Dim_n, Dim_r)
    ELSE matmul_blocked_tile([C |-> C, log |-> log], A, B,
                             arg_block, Dim_m, Dim_r, Dim_n, tile.ii, tile.jj, tile.kk)

\* the kk loop with kk = r written for kk += block_size: one tile for each (ii, jj)
Blocked_loop_kk_once ==
    /\ pc = "kk"
    /\ IF tile.kk < Dim_r
       THEN /\ arg_block > 0 \/ tile.iters < MaxSpin
            /\ C' = TileProduct.C
            /\ log' = TileProduct.log
            /\ pc' = "kk"
            /\ tile' = [tile EXCEPT !.kk = Dim_r, !.iters = @ + 1]
       ELSE /\ pc' = "jj"
            /\ tile' = [tile EXCEPT !.jj = @ + arg_block]
            /\ UNCHANGED <<C, log>>
    /\ UNCHANGED <<bench, driver, suite, A, B, x, y, acc0, kernel, arg_block, calls, verdict>>

\* kk < r: multiply the tile, then kk += block_size; otherwise jj += block_size
Blocked_loop_kk ==
    /\ pc = "kk"
    /\ IF tile.kk < Dim_r
       THEN /\ arg_block > 0 \/ tile.iters < MaxSpin
            /\ C' = TileProduct.C
            /\ log' = TileProduct.log
            /\ pc' = "kk"
            /\ tile' = [tile EXCEPT !.kk = @ + arg_block, !.iters = @ + 1]
       ELSE /\ pc' = "jj"
            /\ tile' = [tile EXCEPT !.jj = @ + arg_block]
            /\ UNCHANGED <<C, log>>
    /\ UNCHANGED <<bench, driver, suite, A, B, x, y, acc0, kernel, arg_block, calls, verdict>>

\* the kernel returns to its caller
Blocked_return ==
    /\ pc = "return"
    /\ pc' = "idle"
    /\ tile' = NoTile
    /\ calls' = calls + 1
    /\ UNCHANGED <<bench, driver, suite, A, B, C, x, y, acc0, kernel, arg_block, log, verdict>>

NextBlocked ==
    \/ Blocked_call
    \/ Blocked_loop_ii
    \/ Blocked_loop_jj
    \/ Blocked_loop_kk
    \/ Blocked_return

SpecBlocked == InitBlocked /\ [][NextBlocked]_vars

\* the naive orderings, whole calls, beside the stepped blocked kernels; a
\* call that has begun goes on: the programs are sequential
NextTotal ==
    \/ NextBlocked
    \/ Call_gemm_ijk \/ Call_gemm_jik \/ Call_gemm_ikj
    \/ Call_gemm_jki \/ Call_gemm_kij \/ Call_gemm_kji

\* the loop tests of the kernels read no element: one fill of A and B will do
InitTotal ==
    \E m \in 1 .. MaxDim, r \in 1 .. MaxDim, n \in 1 .. MaxDim :
        /\ suite \in {"gemm", "matmul"}
        /\ A = IF suite = "gemm" THEN fill_random(Matrix(m, r), 1, 0)
               ELSE init_random_matrix(create_matrix(m, r), 1, 0)
        /\ B = IF suite = "gemm" THEN fill_random(Matrix(r, n), 1, m * r)
               ELSE init_random_matrix(create_matrix(r, n), 1, m * r)
        /\ C = IF suite = "gemm" THEN Matrix(m, n) ELSE create_matrix(m, n)
        /\ acc0 = C
        /\ x = <<>> /\ y = <<>>
        /\ Fresh /\ Idle

SpecTotal == InitTotal /\ [][NextTotal]_vars /\ WF_vars(NextTotal)

---------------------------------------------------------------------------
(* Calls on operands of any shapes.  A kernel takes m, r and n from A and  *)
(* B and never looks at the rows of B or at the shape of C, so nothing     *)
(* keeps its indices inside the buffers of B and C but the caller.  A      *)
(* matrix argument is therefore modelled with the memory behind its        *)
(* buffer: data holds the rows*cols elements of the buffer and, after      *)
(* them, what the heap holds there.  An access behind a buffer is          *)
(* undefined: the call may run on with what it finds, or fault at once.    *)

\* number of elements of an argument's buffer and the memory behind it
HeapLen == (MaxDim + 1) * (MaxDim + 1)

\* rows and columns of a matrix of either suite
Rows(M) == IF "m" \in DOMAIN M THEN M.m ELSE M.rows

Cols(M) == IF "n" \in DOMAIN M THEN M.n ELSE M.cols

\* the matrix M with the memory that follows its buffer
Behind(M) ==
    [M EXCEPT !.data = [p \in 0 .. (HeapLen - 1) |->
                           IF p \in DOMAIN M.data THEN M.data[p] ELSE Drawn(1, p)]]

InitMemory ==
    \E am \in 1 .. MaxDim, an \in 1 .. MaxDim, bm \in 1 .. MaxDim,
       bn \in 1 .. MaxDim, cm \in 1 .. MaxDim, cn \in 1 .. MaxDim :
        /\ suite \in {"gemm", "matmul"}
        /\ A = IF suite = "gemm"
               THEN Behind(fill_random(Matrix(am, an), 1, 0))
               ELSE Behind(init_random_matrix(create_matrix(am, an), 1, 0))
        /\ B = IF suite = "gemm"
               THEN Behind(fill_random(Matrix(bm, bn), 1, am * an))
               ELSE Behind(init_random_matrix(create_matrix(bm, bn), 1, am * an))
        /\ C = IF suite = "gemm" THEN Behind(Matrix(cm, cn))
                                 ELSE Behind(create_matrix(cm, cn))
        /\ acc0 = C
        /\ x = <<>> /\ y = <<>>
        /\ Fresh /\ Idle

\* the kernels a caller can pass, by name
KernelNames ==
    {"gemm_ijk", "gemm_jik", "gemm_ikj", "gemm_jki", "gemm_kij", "gemm_kji",
     "gemm_ikj_control", "gemm_blocked",
     "matmul_ijk", "matmul_jik", "matmul_saxpy", "matmul_ikj",
     "matmul_outer_product", "matmul_kij", "matmul_ikj_inlined", "matmul_blocked"}

\* the call func(A, B, C) through a function pointer, block_size taken by
\* the blocked kernels only
RunKernel(name, block_size, MA, MB, S) ==
    CASE name = "gemm_ijk"             -> gemm_ijk(MA, MB, S)
      [] name = "gemm_jik"             -> gemm_jik(MA, MB, S)
      [] name = "gemm_ikj"             -> gemm_ikj(MA, MB, S)
      [] name = "gemm_jki"             -> gemm_jki(MA, MB, S)
      [] name = "gemm_kij"             -> gemm_kij(MA, MB, S)
      [] name = "gemm_kji"             -> gemm_kji(MA, MB, S)
      [] name = "gemm_ikj_control"     -> gemm_ikj_control(MA, MB, S)
      [] name = "gemm_blocked"         -> gemm_blocked(MA, MB, S, block_size)
      [] name = "matmul_ijk"           -> matmul_ijk(S, MA, MB)
      [] name = "matmul_jik"           -> matmul_jik(S, MA, MB)
      [] name = "matmul_saxpy"         -> matmul_saxpy(S, MA, MB)
      [] name = "matmul_ikj"           -> matmul_ikj(S, MA, MB)
      [] name = "matmul_outer_product" -> matmul_outer_product(S, MA, MB)
      [] name = "matmul_kij"           -> matmul_kij(S, MA, MB)
      [] name = "matmul_ikj_inlined"   -> matmul_ikj_inlined(S, MA, MB)
      [] name = "matmul_blocked"       -> matmul_blocked(S, MA, MB, block_size)

\* the kernels of the running suite, each with the block sizes it is given
Callable(name, block_size) ==
    /\ name \in KernelNames
    /\ (suite = "gemm") = (name \in {"gemm_ijk", "gemm_jik", "gemm_ikj", "gemm_jki",
                                     "gemm_kij", "gemm_kji", "gemm_ikj_control",
                                     "gemm_blocked"})
    /\ IF name \in {"gemm_blocked", "matmul_blocked"}
       THEN block_size \in 1 .. MaxBlock
       ELSE block_size = 0

\* the update (i, j, k) reads A(i, k) and B(k, j) and writes C(i, j): does
\* one of the three offsets lie behind the buffer of its matrix?
BehindBuffer(t) ==
    \/ t[1] * Cols(A) + t[3] >= Rows(A) * Cols(A)
    \/ t[3] * Cols(B) + t[2] >= Rows(B) * Cols(B)
    \/ t[1] * Cols(C) + t[2] >= Rows(C) * Cols(C)

\* the call runs to its end, on whatever memory its indices reach
Memory_call ==
    \E name \in KernelNames, bs \in 0 .. MaxBlock :
        /\ Callable(name, bs)
        /\ pc = "idle" /\ calls = 0
        /\ Returned(name, bs, RunKernel(name, bs, A, B, Acc(C)))

\* the call stops at its first access behind a buffer, if it makes one
Memory_fault ==
    \E name \in KernelNames, bs \in 0 .. MaxBlock :
        /\ Callable(name, bs)
        /\ pc = "idle" /\ calls = 0
        /\ \E R \in {RunKernel(name, bs, A, B, Acc(C)).log} :
             \E p \in 1 .. Len(R) :
               /\ BehindBuffer(R[p])
               /\ \A q \in 1 .. (p - 1) : ~BehindBuffer(R[q])
               /\ log' = SubSeq(R, 1, p)
        /\ pc' = "fault"
        /\ kernel' = name
        /\ arg_block' = bs
        /\ acc0' = C
        /\ calls' = calls + 1
        /\ UNCHANGED <<bench, driver, suite, A, B, C, x, y, verdict, tile>>

NextMemory == Memory_call \/ Memory_fault

SpecMemory == InitMemory /\ [][NextMemory]_vars

---------------------------------------------------------------------------
(* The contracts, written as sums (gemm.h: C(i,j) = C(i,j) + sum over k of *)
(* A(i,k) * B(k,j); gaxpy: y[i] += sum over j of A(i,j) * x[j]).           *)

RECURSIVE SumTo(_, _)
SumTo(f, cnt) == IF cnt = 0 THEN 0 ELSE SumTo(f, cnt - 1) + f[cnt - 1]

\* sum over k in 0 .. r-1 of A(i, k) * B(k, j)
ProductAt(MA, MB, i, j) ==
    SumTo([k \in 0 .. (MA.n - 1) |-> At(MA, i, k) * At(MB, k, j)], MA.n)

\* sum over j in 0 .. n-1 of A(i, j) * x[j]
RowTimes(MA, vx, i) ==
    SumTo([j \in 0 .. (MA.n - 1) |-> At(MA, i, j) * vx[j]], MA.n)

\* the vector with the elements of a tuple, indexed from 0
Vec(t) == [i \in 0 .. (Len(t) - 1) |-> t[i + 1]]

AllZero(f) == \A p \in DOMAIN f : f[p] = 0

NaiveKernels ==
    {"gemm_ijk", "gemm_jik", "gemm_ikj", "gemm_jki", "gemm_kij", "gemm_kji"}

MatmulVariants ==
    {"matmul_jik", "matmul_saxpy", "matmul_outer_product", "matmul_ikj",
     "matmul_kij", "matmul_ikj_inlined"}

GaxpyKernels == {"gaxpy_row_oriented", "gaxpy_column_oriented"}

BlockSizes == (1 .. MaxBlock) \cup {32, 64, 128, 256}

---------------------------------------------------------------------------
(* The benchmark harnesses, one loop test, reset or kernel call at a time. *)
(* bench.phase is the harness's position: "warmup" and "timed" are the     *)
(* tests of the two loops, "warmup_call" and "timed_call" the points just  *)
(* before the kernel is invoked.                                           *)

MaxRuns == 2

\* the operands the benchmark programs build: random A(m, r) and B(r, n) for
\* benchmark_gemm, random square A and B for benchmark_algorithm and
\* benchmark_blocked, random A(m, n) and x with a zero y for benchmark_gaxpy
InitBench ==
    \/ InitGemm
    \/ InitMatmul /\ A.rows = A.cols /\ B.cols = A.rows
    \/ \E m \in 1 .. MaxVec, n \in 1 .. MaxVec, seed \in Seeds :
           /\ suite = "gaxpy"
           /\ A = TestMatrix("random", m, n, seed)
           /\ x = TestVector("random", n, seed, m * n)
           /\ y = TestVector("zeros", m, seed, 0)
           /\ acc0 = y
           /\ B = <<>> /\ C = <<>>
           /\ Fresh /\ Idle

Harnesses ==
    {"benchmark_gemm", "benchmark_algorithm", "benchmark_blocked", "benchmark_gaxpy"}

\* the suite whose operands a harness takes
HarnessSuite(h) ==
    CASE h = "benchmark_gemm"      -> "gemm"
      [] h = "benchmark_algorithm" -> "matmul"
      [] h = "benchmark_blocked"   -> "matmul"
      [] h = "benchmark_gaxpy"     -> "gaxpy"

\* the kernels a harness is handed (its function pointer argument)
HarnessKernels(h) ==
    CASE h = "benchmark_gemm"      -> NaiveKernels
      [] h = "benchmark_algorithm" -> MatmulVariants \cup {"matmul_ijk"}
      [] h = "benchmark_blocked"   -> {"matmul_blocked"}
      [] h = "benchmark_gaxpy"     -> GaxpyKernels

\* for(auto& v : C.data) v = 0.0;  zero_matrix(C);  std::fill(y.begin(), y.end(), 0.0)
Zeroed(acc) ==
    IF suite = "gaxpy"
    THEN [i \in DOMAIN acc |-> 0]
    ELSE [acc EXCEPT !.data = [p \in DOMAIN acc.data |-> 0]]

\* the accumulator the harness works on: its own C, or the caller's y
Accumulator == IF suite = "gaxpy" THEN y ELSE C

\* the harness stores acc as its accumulator; the rest of the operands stay
StoreAccumulator(acc) ==
    /\ IF suite = "gaxpy" THEN y' = acc /\ C' = C ELSE C' = acc /\ y' = y
    /\ UNCHANGED <<suite, A, B, x, verdict, pc, tile, driver>>

\* gemm_func(A, B, C);  func(C, A, B);  matmul_blocked(C, A, B, block_size);
\* gaxpy_func(config.A, config.x, y)
KernelResult(name, block_size) ==
    CASE name = "gaxpy_row_oriented"    -> gaxpy_row_oriented(A, x, y)
      [] name = "gaxpy_column_oriented" -> gaxpy_column_oriented(A, x, y)
      [] OTHER                          -> RunKernel(name, block_size, A, B, Acc(C)).C

\* entry: benchmark_gemm and benchmark_gaxpy warm up once; the other two
\* take warmup_runs and test_runs; all but benchmark_gaxpy create their C
Bench_enter ==
    \E h \in Harnesses, name \in KernelNames \cup GaxpyKernels,
       bs \in 0 .. MaxBlock, w \in 0 .. MaxRuns, t \in 1 .. MaxRuns :
        /\ bench = NoBench /\ kernel = "none" /\ pc = "idle"
        /\ suite = HarnessSuite(h)
        /\ name \in HarnessKernels(h)
        /\ IF h = "benchmark_blocked" THEN bs \in 1 .. MaxBlock ELSE bs = 0
        /\ h \in {"benchmark_gemm", "benchmark_gaxpy"} => w = 1
        /\ bench' = [harness |-> h, phase |-> "warmup", warmup_runs |-> w,
                     test_runs |-> t, run |-> 0]
        /\ kernel' = name /\ arg_block' = bs
        /\ acc0' = Accumulator
        /\ StoreAccumulator(IF h = "benchmark_gaxpy" THEN y ELSE Zeroed(C))
        /\ UNCHANGED <<calls, log>>

\* test of the warm-up loop: another warm-up run (reset first, except in
\* benchmark_gaxpy), or on to the timed runs (benchmark_gaxpy resets y here)
Bench_warmup ==
    /\ bench.phase = "warmup"
    /\ IF bench.run < bench.warmup_runs
       THEN /\ bench' = [bench EXCEPT !.phase = "warmup_call"]
            /\ StoreAccumulator(IF bench.harness = "benchmark_gaxpy"
                                THEN Accumulator ELSE Zeroed(Accumulator))
       ELSE /\ bench' = [bench EXCEPT !.phase = "timed", !.run = 0]
            /\ StoreAccumulator(IF bench.harness = "benchmark_gaxpy"
                                THEN Zeroed(Accumulator) ELSE Accumulator)
    /\ UNCHANGED <<acc0, kernel, arg_block, calls, log>>

\* the kernel call of a warm-up run
Bench_warmup_call ==
    /\ bench.phase = "warmup_call"
    /\ bench' = [bench EXCEPT !.phase = "warmup", !.run = bench.run + 1]
    /\ acc0' = Accumulator
    /\ calls' = calls + 1
    /\ StoreAccumulator(KernelResult(kernel, arg_block))
    /\ UNCHANGED <<kernel, arg_block, log>>

\* test of the timed loop: another timed run (reset first, except in
\* benchmark_gaxpy), or the return
Bench_timed ==
    /\ bench.phase = "timed"
    /\ IF bench.run < bench.test_runs
       THEN /\ bench' = [bench EXCEPT !.phase = "timed_call"]
            /\ StoreAccumulator(IF bench.harness = "benchmark_gaxpy"
                                THEN Accumulator ELSE Zeroed(Accumulator))
       ELSE /\ bench' = [bench EXCEPT !.phase = "returned"]
            /\ StoreAccumulator(Accumulator)
    /\ UNCHANGED <<acc0, kernel, arg_block, calls, log>>

\* the kernel call of a timed run
Bench_timed_call ==
    /\ bench.phase = "timed_call"
    /\ bench' = [bench EXCEPT !.phase = "timed", !.run = bench.run + 1]
    /\ acc0' = Accumulator
    /\ calls' = calls + 1
    /\ StoreAccumulator(KernelResult(kernel, arg_block))
    /\ UNCHANGED <<kernel, arg_block, log>>

NextBench ==
    \/ Bench_enter
    \/ Bench_warmup \/ Bench_warmup_call
    \/ Bench_timed \/ Bench_timed_call

SpecBench == InitBench /\ [][NextBench]_vars

---------------------------------------------------------------------------
(* The drivers: main of test_blocked_gemm.cpp, main and TestSuite of the   *)
(* gaxpy tests, main of the benchmark program.  driver.results keeps the   *)
(* outcome of every test made, driver.broken the implementations that are  *)
(* linked in as a stub which returns without updating C.                   *)

MaxAsserts == 3

\* the implementations main of test_blocked_gemm.cpp tests, in its order
Implementations ==
    <<"gemm_ikj", "gemm_blocked_32", "gemm_blocked_64", "gemm_blocked_128", "gemm_blocked_256">>

\* gemm_func(A, B, C) for the implementation linked under a name
LinkedGemm(name, broken, MA, MB, S) ==
    IF name \in broken THEN S
    ELSE CASE name = "gemm_ikj"         -> gemm_ikj_control(MA, MB, S)
           [] name = "gemm_blocked_32"  -> gemm_blocked_32(MA, MB, S)
           [] name = "gemm_blocked_64"  -> gemm_blocked_64(MA, MB, S)
           [] name = "gemm_blocked_128" -> gemm_blocked_128(MA, MB, S)
           [] name = "gemm_blocked_256" -> gemm_blocked_256(MA, MB, S)

\* matrices_equal with its default tolerance 1e-10, which on integers is 0
matrices_equal(MA, MB, tolerance) ==
    IF MA.m # MB.m \/ MA.n # MB.n
    THEN FALSE
    ELSE \A i \in 0 .. (MA.m - 1), j \in 0 .. (MA.n - 1) :
             ~(fabs(At(MA, i, j) - At(MB, i, j)) > tolerance)

\* one of the two tests of test_gemm_implementation, on A(m, r) and B(r, n)
GemmTestPasses(name, broken, m, r, n, seed, t0) ==
    LET A1 == fill_random(Matrix(m, r), seed, t0)
        B1 == fill_random(Matrix(r, n), seed, t0 + m * r)
        C1_expected == gemm_ikj_control(A1, B1, Acc(Matrix(m, n))).C
        C1_actual == LinkedGemm(name, broken, A1, B1, Acc(Matrix(m, n))).C
    IN  matrices_equal(C1_expected, C1_actual, 0)

\* test_gemm_implementation: the small test, then the one whose dimensions no
\* block size divides (3x4x3 and 50x47x53 in the source, scaled to MaxDim)
test_gemm_implementation(name, broken, seed) ==
    IF ~GemmTestPasses(name, broken, MaxDim - 1, MaxDim, MaxDim - 1, seed, 0)
    THEN FALSE
    ELSE IF ~GemmTestPasses(name, broken, MaxDim, MaxDim - 1, MaxDim, seed,
                            2 * MaxDim * (MaxDim - 1))
         THEN FALSE
         ELSE TRUE

\* RunVariant for the variants as linked
LinkedVariant(name, broken, C_test, MA, MB) ==
    IF name \in broken THEN C_test ELSE RunVariant(name, C_test, MA, MB)

\* verify_correctness on the variants as linked
verify_correctness_linked(MA, MB, broken) ==
    LET C_ref  == matmul_ijk(Acc(create_matrix(MA.rows, MB.cols)), MA, MB).C
        C_test == create_matrix(MA.rows, MB.cols)
    IN  [name \in VariantNames \cup {"blocked"} |->
            Report(matrix_max_diff(C_ref, LinkedVariant(name, broken, zero_matrix(C_test), MA, MB)))]

\* the programs start from their own operands: the benchmark's random square
\* A and B, the tests' locals
InitDriver ==
    \/ InitMatmul /\ A.rows = A.cols /\ B.cols = A.rows
    \/ /\ suite \in {"gemm", "gaxpy"}
       /\ A = <<>> /\ B = <<>> /\ C = <<>> /\ x = <<>> /\ y = <<>> /\ acc0 = <<>>
       /\ Fresh /\ Idle

DriverStep(d) ==
    /\ driver' = d
    /\ UNCHANGED <<suite, A, B, C, x, y, acc0, kernel, arg_block, calls, log, pc, tile, bench>>

\* entry of main: bool all_passed = true;  TestSuite suite;
Driver_start ==
    \E prog \in {"test_blocked_gemm", "test_gaxpy", "benchmark"},
       b \in {{}} \cup {{name} : name \in VariantNames \cup {"blocked"}}
                  \cup SUBSET {"gemm_blocked_32", "gemm_blocked_64",
                               "gemm_blocked_128", "gemm_blocked_256"} :
        /\ driver = NoDriver
        /\ prog = CASE suite = "gemm" -> "test_blocked_gemm"
                    [] suite = "gaxpy" -> "test_gaxpy"
                    [] suite = "matmul" -> "benchmark"
        /\ CASE prog = "test_blocked_gemm" -> b \subseteq {"gemm_blocked_32", "gemm_blocked_64",
                                                          "gemm_blocked_128", "gemm_blocked_256"}
             [] prog = "test_gaxpy"        -> b = {}
             [] prog = "benchmark"         -> b \subseteq VariantNames \cup {"blocked"}
        /\ DriverStep([NoDriver EXCEPT !.program = prog, !.broken = b])
        /\ UNCHANGED verdict

\* all_passed &= test_gemm_implementation(gemm_func, name), short-circuited:
\* once all_passed is false the test is not made
Driver_test_gemm_short_circuit ==
    /\ driver.program = "test_blocked_gemm" /\ ~driver.exited
    /\ driver.at < Len(Implementations)
    /\ \E seed \in Seeds :
         LET passed == test_gemm_implementation(Implementations[driver.at + 1],
                                                driver.broken, seed)
         IN  DriverStep(IF driver.all_passed
                        THEN [driver EXCEPT !.at = @ + 1,
                                            !.results = Append(@, passed),
                                            !.all_passed = passed]
                        ELSE [driver EXCEPT !.at = @ + 1])
    /\ UNCHANGED verdict

\* all_passed &= test_gemm_implementation(gemm_func, name);
Driver_test_gemm ==
    /\ driver.program = "test_blocked_gemm" /\ ~driver.exited
    /\ driver.at < Len(Implementations)
    /\ \E seed \in Seeds :
         LET passed == test_gemm_implementation(Implementations[driver.at + 1],
                                                driver.broken, seed)
         IN  DriverStep([driver EXCEPT !.at = @ + 1,
                                       !.results = Append(@, passed),
                                       !.all_passed = (@ /\ passed)])
    /\ UNCHANGED verdict

\* return all_passed ? 0 : 1;
Driver_return_gemm ==
    /\ driver.program = "test_blocked_gemm" /\ ~driver.exited
    /\ driver.at = Len(Implementations)
    /\ DriverStep([driver EXCEPT !.exited = TRUE,
                                 !.exit_code = IF driver.all_passed THEN 0 ELSE 1])
    /\ UNCHANGED verdict

\* the tests of the gaxpy driver make their assertions one after the other
CanAssert ==
    /\ driver.program = "test_gaxpy" /\ ~driver.exited
    /\ driver.passed + driver.failed < MaxAsserts

\* if (condition) { passed++; std::cout << ok; } else { failed++; std::cout << failure; }
Counted(condition, truth, ok, failure) ==
    DriverStep(IF condition
               THEN [driver EXCEPT !.passed = @ + 1, !.results = Append(@, truth),
                                   !.output = Append(@, ok)]
               ELSE [driver EXCEPT !.failed = @ + 1, !.results = Append(@, truth),
                                   !.output = Append(@, failure)])

\* TestSuite::assert_true
assert_true ==
    /\ CanAssert
    /\ \E condition \in BOOLEAN : Counted(condition, condition, "message", "FAILED: message")
    /\ UNCHANGED verdict

\* TestSuite::assert_near
assert_near ==
    /\ CanAssert
    /\ \E actual \in 0 .. 2, expected \in 0 .. 2, tolerance \in 0 .. 1 :
         Counted(fabs(actual - expected) <= tolerance,
                 actual - expected <= tolerance /\ expected - actual <= tolerance,
                 "message", "FAILED: message (expected, got)")
    /\ UNCHANGED verdict

RECURSIVE assert_vectors_equal_loop_i(_, _, _, _)
assert_vectors_equal_loop_i(v1, v2, max_diff, i) ==
    IF i < Cardinality(DOMAIN v1)
    THEN LET d == fabs(v1[i] - v2[i])
         IN  Then({assert_vectors_equal_loop_i(v1, v2, T, i + 1) :
                   T \in {IF max_diff > d THEN max_diff ELSE d}})
    ELSE max_diff

\* TestSuite::assert_vectors_equal
assert_vectors_equal ==
    /\ CanAssert
    /\ \E v1 \in {Vec(<<0>>), Vec(<<1, 2>>), Vec(<<2, 2>>)},
          v2 \in {Vec(<<1>>), Vec(<<1, 2>>), Vec(<<1, 1>>)}, tolerance \in 0 .. 1 :
         LET truth == /\ DOMAIN v1 = DOMAIN v2
                      /\ \A i \in DOMAIN v1 : fabs(v1[i] - v2[i]) <= tolerance
         IN  IF Cardinality(DOMAIN v1) # Cardinality(DOMAIN v2)
             THEN Counted(FALSE, truth, "", "FAILED: message (size mismatch)")
             ELSE Counted(assert_vectors_equal_loop_i(v1, v2, 0, 0) <= tolerance, truth,
                          "message (max diff)", "FAILED: message (max diff, tolerance)")
    /\ UNCHANGED verdict

\* suite.print_summary();  return suite.all_passed() ? 0 : 1;
Driver_return_gaxpy ==
    /\ driver.program = "test_gaxpy" /\ ~driver.exited
    /\ DriverStep([driver EXCEPT !.exited = TRUE,
                                 !.all_passed = (driver.failed = 0),
                                 !.exit_code = IF driver.failed = 0 THEN 0 ELSE 1])
    /\ UNCHANGED verdict

\* main of the benchmark program: verify_correctness(A, B);
Main_verify ==
    /\ driver.program = "benchmark" /\ ~driver.exited /\ driver.at = 0
    /\ verdict' = verify_correctness_linked(A, B, driver.broken)
    /\ DriverStep([driver EXCEPT !.at = 1])

\* the rest of main: the benchmarks, which work on matrices of their own and
\* leave only printed figures, the clean-up, and return 0;
Main_return ==
    /\ driver.program = "benchmark" /\ ~driver.exited /\ driver.at = 1
    /\ DriverStep([driver EXCEPT !.exited = TRUE, !.exit_code = 0])
    /\ UNCHANGED verdict

NextDriver ==
    \/ Driver_start
    \/ Driver_test_gemm \/ Driver_return_gemm
    \/ assert_true \/ assert_near \/ assert_vectors_equal \/ Driver_return_gaxpy
    \/ Main_verify \/ Main_return

SpecDriver == InitDriver /\ [][NextDriver]_vars

---------------------------------------------------------------------------
(* The matrix objects under the operations of the suite: element write and *)
(* read, the random fills, zero_matrix, copy_matrix, a multiply, a gaxpy.  *)
(* log keeps the operations made, acc0 the objects as they were before the *)
(* last one.                                                               *)

MaxSide == 2

MaxOps == 2

\* the values the tests store: A(0, 0) = 1.0; A(1, 2) = 5.0; A(2, 3) = 9.0
Stored == {5, 9}

\* A(i, j) = v on the C++ Matrix, MAT(m, i, j) = v on the C struct
SetElement(M, i, j, v) ==
    IF "m" \in DOMAIN M
    THEN [M EXCEPT !.data[i * M.n + j] = v]
    ELSE [M EXCEPT !.data[i * M.cols + j] = v]

\* A(i, j), MAT(m, i, j) read
GetElement(M, i, j) == IF "m" \in DOMAIN M THEN At(M, i, j) ELSE MAT(M, i, j)

RECURSIVE int_random_matrix_loop_i(_, _, _, _)
int_random_matrix_loop_i(M, seed, t0, i) ==
    IF i < M.rows
    THEN Then({int_random_matrix_loop_i(T, seed, t0, i + 1) :
               T \in {[M EXCEPT !.data[i] = Drawn(seed, t0 + i)]}})
    ELSE M

\* int_random_matrix of split_file/matrix_utils.c:
\* for (i = 0; i < m->rows; i++) m->data[i] = rand() / RAND_MAX * 2.0 - 1.0
int_random_matrix(M, seed, t0) == int_random_matrix_loop_i(M, seed, t0, 0)

\* copy_matrix: memcpy(dest->data, src->data, src->rows * src->cols * sizeof(double)),
\* as far as dest's buffer goes
copy_matrix(dest, src) ==
    [dest EXCEPT !.data = [p \in DOMAIN dest.data |->
                              IF p < src.rows * src.cols THEN src.data[p] ELSE dest.data[p]]]

\* the objects as they are
Objects == [A |-> A, B |-> B, C |-> C, y |-> y]

\* A is m x n, B is n x m, C is m x m; x has n ones, y m zeros
InitMatrix ==
    \E m \in 1 .. MaxSide, n \in 1 .. MaxSide :
        /\ suite \in {"gemm", "matmul"}
        /\ A = IF suite = "gemm" THEN Matrix(m, n) ELSE create_matrix(m, n)
        /\ B = IF suite = "gemm" THEN Matrix(n, m) ELSE create_matrix(n, m)
        /\ C = IF suite = "gemm" THEN Matrix(m, m) ELSE create_matrix(m, m)
        /\ x = IF suite = "gemm" THEN TestVector("ones", n, 0, 0) ELSE <<>>
        /\ y = IF suite = "gemm" THEN TestVector("zeros", m, 0, 0) ELSE <<>>
        /\ acc0 = [A |-> A, B |-> B, C |-> C, y |-> y]
        /\ Fresh /\ Idle

\* an operation is made: op is its entry in the log
Operated(op) ==
    /\ pc = "idle" /\ calls < MaxOps
    /\ calls' = calls + 1
    /\ log' = Append(log, op)
    /\ acc0' = Objects
    /\ UNCHANGED <<suite, x, kernel, arg_block, verdict, pc, tile, bench, driver>>

Op_set ==
    \E i \in 0 .. (MaxSide - 1), j \in 0 .. (MaxSide - 1), v \in Stored :
        /\ i < Rows(A) /\ j < Cols(A)
        /\ A' = SetElement(A, i, j, v)
        /\ Operated(<<"set", i, j, v>>)
        /\ UNCHANGED <<B, C, y>>

Op_get ==
    \E i \in 0 .. (MaxSide - 1), j \in 0 .. (MaxSide - 1) :
        /\ i < Rows(A) /\ j < Cols(A)
        /\ Operated(<<"get", i, j, GetElement(A, i, j)>>)
        /\ UNCHANGED <<A, B, C, y>>

\* A.fill_random() of the C++ class, init_random_matrix(A) of the single-file
\* program
Op_fill_random ==
    \E seed \in 1 .. 2 :
        /\ A' = IF suite = "gemm" THEN fill_random(A, seed, 0)
                ELSE init_random_matrix(A, seed, 0)
        /\ Operated(<<"fill_random", seed>>)
        /\ UNCHANGED <<B, C, y>>

Op_int_random_matrix ==
    \E seed \in 1 .. 2 :
        /\ suite = "matmul"
        /\ A' = int_random_matrix(A, seed, 0)
        /\ Operated(<<"int_random_matrix", seed>>)
        /\ UNCHANGED <<B, C, y>>

Op_zero_matrix ==
    /\ suite = "matmul"
    /\ A' = zero_matrix(A)
    /\ Operated(<<"zero_matrix">>)
    /\ UNCHANGED <<B, C, y>>

\* copy_matrix(B, A) and copy_matrix(C, A); a source longer than the
\* destination makes memcpy write behind the destination's buffer, which may
\* as well fault
Op_copy_matrix ==
    \E dest \in {"B", "C"} :
        /\ suite = "matmul"
        /\ B' = IF dest = "B" THEN copy_matrix(B, A) ELSE B
        /\ C' = IF dest = "C" THEN copy_matrix(C, A) ELSE C
        /\ Operated(<<"copy_matrix", dest>>)
        /\ UNCHANGED <<A, y>>

Op_copy_matrix_fault ==
    \E dest \in {"B", "C"} :
        /\ suite = "matmul"
        /\ pc = "idle" /\ calls < MaxOps
        /\ Rows(A) * Cols(A) > Rows(Objects[dest]) * Cols(Objects[dest])
        /\ pc' = "fault"
        /\ log' = Append(log, <<"copy_matrix", dest>>)
        /\ UNCHANGED <<suite, A, B, C, x, y, acc0, kernel, arg_block, calls, verdict, tile, bench, driver>>

\* any multiply kernel on A, B and the accumulator C; the kernels are the
\* costly operations and are made as the first or the second one
Op_multiply ==
    \E name \in KernelNames, bs \in 0 .. MaxBlock :
        /\ Len(log) < 2
        /\ Callable(name, bs)
        /\ C' = RunKernel(name, bs, A, B, Acc(C)).C
        /\ Operated(<<"multiply">>)
        /\ UNCHANGED <<A, B, y>>

\* either gaxpy kernel on A, x and the accumulator y
Op_gaxpy ==
    \E name \in GaxpyKernels :
        /\ Len(log) < 2
        /\ suite = "gemm"
        /\ y' = IF name = "gaxpy_row_oriented" THEN gaxpy_row_oriented(A, x, y)
                ELSE gaxpy_column_oriented(A, x, y)
        /\ Operated(<<"gaxpy">>)
        /\ UNCHANGED <<A, B, C>>

NextMatrix ==
    \/ Op_set \/ Op_get
    \/ Op_fill_random \/ Op_int_random_matrix
    \/ Op_zero_matrix \/ Op_copy_matrix \/ Op_copy_matrix_fault
    \/ Op_multiply \/ Op_gaxpy

SpecMatrix == InitMatrix /\ [][NextMatrix]_vars

---------------------------------------------------------------------------
(* benchmark_gaxpy as a whole call, and compare_implementations, which     *)
(* benchmarks two kernels on one configuration and reports time2 / time1.  *)
(* The measured times are inputs: averages in units of the timer, 0 for a  *)
(* run too short to measure.                                               *)

MaxTime == 3

\* gaxpy_func(config.A, config.x, y)
CallGaxpy(name, MA, vx, vy) ==
    IF name = "gaxpy_row_oriented" THEN gaxpy_row_oriented(MA, vx, vy)
    ELSE gaxpy_column_oriented(MA, vx, vy)

RECURSIVE benchmark_gaxpy_loop_iter(_, _, _, _, _, _)
benchmark_gaxpy_loop_iter(name, MA, vx, vy, iterations, iter) ==
    IF iter < iterations
    THEN Then({benchmark_gaxpy_loop_iter(name, MA, vx, T, iterations, iter + 1) :
               T \in {CallGaxpy(name, MA, vx, vy)}})
    ELSE vy

\* benchmark_gaxpy without the std::fill after the warm-up run
benchmark_gaxpy_no_reset(name, MA, vx, vy, iterations) ==
    benchmark_gaxpy_loop_iter(name, MA, vx, CallGaxpy(name, MA, vx, vy), iterations, 0)

\* benchmark_gaxpy: the y it leaves to its caller (warm-up run, std::fill,
\* the timed runs)
benchmark_gaxpy(name, MA, vx, vy, iterations) ==
    LET warmed == CallGaxpy(name, MA, vx, vy)
        reset == [i \in DOMAIN warmed |-> 0]
    IN  benchmark_gaxpy_loop_iter(name, MA, vx, reset, iterations, 0)

\* double speedup = time2 / time1, kept as the fraction; IEEE division gives
\* +inf for time2 > 0 = time1 and NaN for 0 / 0
Speedup(time1, time2) == [num |-> time2, den |-> time1]

\* speedup < 1.0, speedup > 1.0, speedup == 1.0 as the double compares
Below1(s) == s.den > 0 /\ s.num < s.den

Above1(s) == (s.den > 0 /\ s.num > s.den) \/ (s.den = 0 /\ s.num > 0)

Equal1(s) == s.den > 0 /\ s.num = s.den

RECURSIVE compare_implementations_loop_i(_, _, _, _)
compare_implementations_loop_i(y1, y2, max_diff, i) ==
    IF i < Cardinality(DOMAIN y1)
    THEN LET d == fabs(y1[i] - y2[i])
         IN  Then({compare_implementations_loop_i(y1, y2, T, i + 1) :
                   T \in {IF max_diff > d THEN max_diff ELSE d}})
    ELSE max_diff

\* random A(m, n) and x; every output vector is built as (m, 0.0) or handed
\* over by a caller with what it holds
InitCompare ==
    \E m \in 1 .. MaxSide, n \in 1 .. MaxSide, seed \in Seeds, ky \in {"zeros", "tens"} :
        /\ suite = "gaxpy"
        /\ A = TestMatrix("random", m, n, seed)
        /\ x = TestVector("random", n, seed, m * n)
        /\ y = TestVector(ky, m, seed, 0)
        /\ acc0 = y
        /\ B = <<>> /\ C = <<>>
        /\ Fresh /\ Idle

\* benchmark_gaxpy(gaxpy_func, config, y) called on the caller's y
Call_benchmark_gaxpy ==
    \E name \in GaxpyKernels, iterations \in 0 .. MaxRuns :
        /\ bench = NoBench /\ verdict = <<>>
        /\ y' = benchmark_gaxpy(name, A, x, y, iterations)
        /\ acc0' = y
        /\ kernel' = name
        /\ bench' = [NoBench EXCEPT !.harness = "benchmark_gaxpy", !.phase = "returned",
                                    !.warmup_runs = 1, !.test_runs = iterations]
        /\ UNCHANGED <<suite, A, B, C, x, arg_block, calls, log, verdict, pc, tile, driver>>

\* one pass of the loop of compare_implementations over sizes
compare_implementations ==
    \E iterations \in 1 .. MaxRuns, time1 \in 0 .. MaxTime, time2 \in 0 .. MaxTime :
        /\ bench = NoBench /\ verdict = <<>>
        /\ LET y1 == benchmark_gaxpy("gaxpy_row_oriented", A, x,
                                     [i \in 0 .. (A.m - 1) |-> 0], iterations)
               y2 == benchmark_gaxpy("gaxpy_column_oriented", A, x,
                                     [i \in 0 .. (A.m - 1) |-> 0], iterations)
               max_diff == compare_implementations_loop_i(y1, y2, 0, 0)
           IN  verdict' = [time1 |-> time1, time2 |-> time2,
                           speedup |-> Speedup(time1, time2),
                           y1 |-> y1, y2 |-> y2, max_diff |-> max_diff,
                           warning |-> (max_diff > 0)]
        /\ bench' = [NoBench EXCEPT !.harness = "compare_implementations", !.phase = "returned",
                                    !.warmup_runs = 1, !.test_runs = iterations]
        /\ UNCHANGED <<suite, A, B, C, x, y, acc0, kernel, arg_block, calls, log, pc, tile, driver>>

NextCompare == Call_benchmark_gaxpy \/ compare_implementations

SpecCompare == InitCompare /\ [][NextCompare]_vars

---------------------------------------------------------------------------
(* main of the modular benchmark program: the command line, the three      *)
(* parameters and the table of results.  The operands, verify_correctness  *)
(* and the harnesses are modelled above; here a PerfResult is the name of  *)
(* the algorithm it reports.                                               *)

MaxArgc == 4

\* int matrix_size = 256;  int warmup_runs = 3;  int test_runs = 5;
default_matrix_size == 256

default_warmup_runs == 3

default_test_runs == 5

\* PerfResult results[10];
results_capacity == 10

\* const char* alg_names[]
alg_names ==
    <<"ijk (dot product)", "jik", "saxpy", "outer product",
      "ikj (modular)", "kij", "ikj (inlined)">>

\* int block_sizes[] = {32, 64, 128};
block_sizes == <<32, 64, 128>>

\* command-line words the runs are made with, character by character
ArgTexts ==
    { <<"1", "6">>, <<"3", "2">>, <<"6", "4">>, <<"1", "2", "8">>,
      <<"2">>, <<"-", "7">>, <<"4", "x">> }

Digit(c) ==
    CASE c = "0" -> 0 [] c = "1" -> 1 [] c = "2" -> 2 [] c = "3" -> 3 [] c = "4" -> 4
      [] c = "5" -> 5 [] c = "6" -> 6 [] c = "7" -> 7 [] c = "8" -> 8 [] c = "9" -> 9
      [] OTHER -> -1

RECURSIVE atoi_loop(_, _, _)
atoi_loop(text, at, value) ==
    IF at <= Len(text) /\ Digit(text[at]) >= 0
    THEN atoi_loop(text, at + 1, 10 * value + Digit(text[at]))
    ELSE value

\* atoi: an optional sign, then the leading decimal digits; 0 if there are none
atoi(text) ==
    IF text # <<>> /\ text[1] = "-" THEN 0 - atoi_loop(text, 2, 0)
    ELSE IF text # <<>> /\ text[1] = "+" THEN atoi_loop(text, 2, 0)
    ELSE atoi_loop(text, 1, 0)

\* the parameters after the three if (argc > k) lines; argv[0] is the program
Main_parameters(argc, argv) ==
    [matrix_size |-> IF argc > 1 THEN atoi(argv[1]) ELSE default_matrix_size,
     warmup_runs |-> IF argc > 2 THEN atoi(argv[2]) ELSE default_warmup_runs,
     test_runs   |-> IF argc > 3 THEN atoi(argv[3]) ELSE default_test_runs]

\* results[result_count++] = r: a write behind the array is recorded as an
\* overrun, the table is then what the build makes of it
StoreResult(d, r) ==
    [d EXCEPT !.writes = Append(@, d.result_count),
              !.results = IF d.result_count \in 0 .. (results_capacity - 1)
                          THEN Append(@, r) ELSE @,
              !.overrun = @ \/ d.result_count \notin 0 .. (results_capacity - 1),
              !.result_count = @ + 1]

\* the for loop's i++ and test; the next statement when the test fails
LoopOn(d, bound, after) ==
    IF d.i + 1 < bound THEN [d EXCEPT !.i = @ + 1]
    ELSE [d EXCEPT !.i = 0, !.at = after]

InitMain ==
    \E argc \in 1 .. MaxArgc :
      \E argv \in [1 .. (argc - 1) -> ArgTexts] :
        /\ suite = "matmul"
        /\ A = <<>> /\ B = <<>> /\ C = <<>> /\ x = <<>> /\ y = <<>> /\ acc0 = <<>>
        /\ kernel = "none" /\ arg_block = 0 /\ calls = 0 /\ log = <<>>
        /\ verdict = <<>> /\ bench = NoBench /\ Idle
        /\ driver = [program |-> "main", at |-> "parse", argc |-> argc, argv |-> argv,
                     matrix_size |-> default_matrix_size,
                     warmup_runs |-> default_warmup_runs,
                     test_runs |-> default_test_runs,
                     i |-> 0, result_count |-> 0, results |-> <<>>, writes |-> <<>>,
                     overrun |-> FALSE, num_results |-> -1, exit_code |-> -1]

\* the k-th word read into the parameter before the k-th
Main_parse_shifted ==
    /\ driver.at = "parse"
    /\ LET p == Main_parameters(driver.argc, driver.argv)
       IN  DriverStep([driver EXCEPT !.at = "basic",
                                     !.matrix_size = p.warmup_runs,
                                     !.warmup_runs = p.test_runs,
                                     !.test_runs = p.matrix_size])
    /\ UNCHANGED verdict

\* lines 11-18 and 45-46 of main
Main_parse ==
    /\ driver.at = "parse"
    /\ LET p == Main_parameters(driver.argc, driver.argv)
       IN  DriverStep([driver EXCEPT !.at = "basic",
                                     !.matrix_size = p.matrix_size,
                                     !.warmup_runs = p.warmup_runs,
                                     !.test_runs = p.test_runs])
    /\ UNCHANGED verdict

\* for (i < 7) results[result_count++] = benchmark_algorithm(alg_funcs[i], ...)
Main_basic ==
    /\ driver.at = "basic"
    /\ DriverStep(LoopOn(StoreResult(driver, <<alg_names[driver.i + 1], 0>>),
                         Len(alg_names), "blocked"))
    /\ UNCHANGED verdict

\* the guard of the blocked loop left out
Main_blocked_unguarded ==
    /\ driver.at = "blocked"
    /\ DriverStep(LoopOn(StoreResult(driver, <<"blocked", block_sizes[driver.i + 1]>>),
                         Len(block_sizes), "print"))
    /\ UNCHANGED verdict

\* for (i < 3) if (block_sizes[i] <= matrix_size)
\*     results[result_count++] = benchmark_blocked(A, B, block_sizes[i], ...)
Main_blocked ==
    /\ driver.at = "blocked"
    /\ DriverStep(LoopOn(IF block_sizes[driver.i + 1] <= driver.matrix_size
                         THEN StoreResult(driver, <<"blocked", block_sizes[driver.i + 1]>>)
                         ELSE driver,
                         Len(block_sizes), "print"))
    /\ UNCHANGED verdict

\* print_performance_results(results, result_count);  ...  return 0;
Main_print ==
    /\ driver.at = "print"
    /\ DriverStep([driver EXCEPT !.at = "returned", !.num_results = driver.result_count,
                                 !.exit_code = 0])
    /\ UNCHANGED verdict

NextMain == Main_parse \/ Main_basic \/ Main_blocked \/ Main_print

SpecMain == InitMain /\ [][NextMain]_vars

---------------------------------------------------------------------------
(* The correctness checks taken statement by statement: verify_correctness *)
(* with its C_ref (acc0) and its one C_test (C) handed from variant to     *)
(* variant, and a test of test_gemm_implementation with its C_expected     *)
(* (acc0) and C_actual (C).  calls counts the variants verified.           *)

\* names[] of verify_correctness in the order of the loop, then the blocked test
names == <<"jik", "saxpy", "outer_product", "ikj", "kij", "ikj_inlined", "blocked">>

\* the operands the checks are called with; no accumulator exists yet
InitVerify ==
    \E m \in 1 .. MaxDim, r \in 1 .. MaxDim, n \in 1 .. MaxDim, seed \in Seeds :
        /\ suite \in {"gemm", "matmul"}
        /\ A = IF suite = "gemm" THEN fill_random(Matrix(m, r), seed, 0)
               ELSE init_random_matrix(create_matrix(m, r), seed, 0)
        /\ B = IF suite = "gemm" THEN fill_random(Matrix(r, n), seed, m * r)
               ELSE init_random_matrix(create_matrix(r, n), seed, m * r)
        /\ C = <<>> /\ acc0 = <<>>
        /\ x = <<>> /\ y = <<>>
        /\ Fresh /\ Idle

\* Matrix *C_ref = create_matrix(...);  Matrix *C_test = create_matrix(...);
Verify_enter ==
    /\ suite = "matmul" /\ pc = "idle"
    /\ acc0' = create_matrix(A.rows, B.cols)
    /\ C' = create_matrix(A.rows, B.cols)
    /\ pc' = "ref"
    /\ UNCHANGED <<suite, A, B, x, y, kernel, arg_block, calls, log, verdict, tile, bench, driver>>

\* matmul_ijk(C_ref, A, B);
Verify_reference ==
    /\ pc = "ref"
    /\ acc0' = matmul_ijk(Acc(acc0), A, B).C
    /\ kernel' = "ijk"
    /\ pc' = "zero"
    /\ UNCHANGED <<suite, A, B, C, x, y, arg_block, calls, log, verdict, tile, bench, driver>>

\* verify_correctness without its zero_matrix(C_test)
Verify_zero_left_out ==
    /\ pc = "zero"
    /\ pc' = "run"
    /\ UNCHANGED <<suite, A, B, C, x, y, acc0, kernel, arg_block, calls, log, verdict, tile, bench, driver>>

\* zero_matrix(C_test);
Verify_zero ==
    /\ pc = "zero"
    /\ C' = zero_matrix(C)
    /\ pc' = "run"
    /\ UNCHANGED <<suite, A, B, x, y, acc0, kernel, arg_block, calls, log, verdict, tile, bench, driver>>

\* funcs[test](C_test, A, B);  max_diff = matrix_max_diff(C_ref, C_test);
\* the PASS or FAIL line;  test++ (after the loop: the blocked test)
Verify_run ==
    /\ pc = "run"
    /\ \E R \in {RunVariant(names[calls + 1], C, A, B)} :
          /\ C' = R
          /\ verdict' = Append(verdict, <<names[calls + 1], Report(matrix_max_diff(acc0, R))>>)
    /\ kernel' = names[calls + 1]
    /\ calls' = calls + 1
    /\ pc' = IF calls + 1 < Len(names) THEN "zero" ELSE "done"
    /\ UNCHANGED <<suite, A, B, x, y, acc0, arg_block, log, tile, bench, driver>>

\* Matrix C1_expected(3, 3);  Matrix C1_actual(3, 3);
Test_construct ==
    /\ suite = "gemm" /\ pc = "idle"
    /\ acc0' = Matrix(A.m, B.n)
    /\ C' = Matrix(A.m, B.n)
    /\ pc' = "expected"
    /\ UNCHANGED <<suite, A, B, x, y, kernel, arg_block, calls, log, verdict, tile, bench, driver>>

\* gemm_ikj(A1, B1, C1_expected);
Test_expected ==
    /\ pc = "expected"
    /\ acc0' = gemm_ikj_control(A, B, Acc(acc0)).C
    /\ kernel' = "gemm_ikj"
    /\ pc' = "actual"
    /\ UNCHANGED <<suite, A, B, C, x, y, arg_block, calls, log, verdict, tile, bench, driver>>

\* gemm_func(A1, B1, C1_actual);  if (!matrices_equal(C1_expected, C1_actual))
Test_actual ==
    /\ pc = "actual"
    /\ \E at \in DOMAIN Implementations :
         \E R \in {LinkedGemm(Implementations[at], {}, A, B, Acc(C)).C} :
            /\ C' = R
            /\ verdict' = <<<<Implementations[at],
                              IF matrices_equal(acc0, R, 0) THEN "PASS" ELSE "FAIL">>>>
            /\ kernel' = Implementations[at]
    /\ calls' = calls + 1
    /\ pc' = "done"
    /\ UNCHANGED <<suite, A, B, x, y, acc0, arg_block, log, tile, bench, driver>>

NextVerify ==
    \/ Verify_enter \/ Verify_reference \/ Verify_zero \/ Verify_run
    \/ Test_construct \/ Test_expected \/ Test_actual

SpecVerify == InitVerify /\ [][NextVerify]_vars

---------------------------------------------------------------------------
(* Properties.                                                             *)

\* C1: from a zero C, gemm_blocked with any block_size >= 1 (dividing the
\* dimensions or not, larger than all of them or not, the wrappers included)
\* leaves C elementwise equal to the C of the reference gemm_ikj from zero.
C1_BlockedEqualsReference ==
    (suite = "gemm" /\ kernel = "gemm_blocked" /\ calls = 1 /\ arg_block >= 1)
        => /\ AllZero(acc0.data)
           /\ C = gemm_ikj_control(A, B, Acc(Matrix(A.m, B.n))).C

\* a 3x3 by 3x3 product done in blocks of 2, which divide no dimension
C1_Witness ==
    /\ kernel = "gemm_blocked" /\ arg_block = 2 /\ calls = 1
    /\ A.m = 3 /\ A.n = 3 /\ B.n = 3
    /\ C # acc0
    /\ C = gemm_ikj_control(A, B, Acc(Matrix(3, 3))).C

\* C2: each of the six orderings ends with
\* C(i, j) = C0(i, j) + sum over k of A(i, k) * B(k, j) for every (i, j),
\* C0 being the content of C before the call.
C2_OrderingsAddTheProduct ==
    kernel \in NaiveKernels
        => \A i \in 0 .. (A.m - 1), j \in 0 .. (B.n - 1) :
               At(C, i, j) = At(acc0, i, j) + ProductAt(A, B, i, j)

\* gemm_jki called on an accumulator that already holds a product
C2_Witness ==
    /\ kernel = "gemm_jki" /\ calls = 2
    /\ A.m = 2 /\ A.n = 3 /\ B.n = 2
    /\ ~AllZero(acc0.data)
    /\ C # acc0

\* C3: from zero accumulators every variant of the C suite, matmul_blocked
\* with block size 64 included, gives a C at maximum absolute difference 0
\* from the C of matmul_ijk, and verify_correctness reports PASS for each.
C3_VariantsPassVerification ==
    /\ verdict # <<>>
           => /\ DOMAIN verdict = VariantNames \cup {"blocked"}
              /\ \A name \in DOMAIN verdict : verdict[name] = "PASS"
    /\ (/\ suite = "matmul" /\ calls = 1
        /\ \/ kernel \in MatmulVariants
           \/ kernel = "matmul_blocked" /\ arg_block = 64)
           => /\ AllZero(acc0.data)
              /\ matrix_max_diff(matmul_ijk(Acc(acc0), A, B).C, C) = 0

\* verify_correctness has run on 3x3 operands whose product is not zero
C3_Witness ==
    /\ verdict # <<>>
    /\ verdict["saxpy"] = "PASS" /\ verdict["blocked"] = "PASS"
    /\ A.rows = 3 /\ A.cols = 3 /\ B.cols = 3
    /\ ~AllZero(matmul_ijk(Acc(create_matrix(3, 3)), A, B).C.data)

\* C4: for fixed A, B and zero C the result of gemm_blocked is the same for
\* every block size: the C a call left equals the C of every other block
\* size, those of the wrappers gemm_blocked_32 .. _256 included.
C4_BlockSizeInvariant ==
    (suite = "gemm" /\ kernel = "gemm_blocked" /\ calls = 1)
        => \A bs \in BlockSizes : C = gemm_blocked(A, B, Acc(acc0), bs).C

\* gemm_blocked_256 on 3x3 operands: one tile, against the tiles of size 1
C4_Witness ==
    /\ kernel = "gemm_blocked" /\ arg_block = 256 /\ calls = 1
    /\ A.m = 3 /\ A.n = 3 /\ B.n = 3
    /\ C # acc0
    /\ C = gemm_blocked(A, B, Acc(acc0), 1).C

\* C5: a call adds the product to what the accumulator held (C for a gemm
\* kernel, naive or blocked; y for a gaxpy kernel); the second of two calls
\* without zeroing leaves the initial content plus twice the product.
C5_KernelsAccumulate ==
    [][/\ (suite = "gemm" /\ calls' = calls + 1)
              => \A i \in 0 .. (A.m - 1), j \in 0 .. (B.n - 1) :
                    /\ At(C', i, j) = At(C, i, j) + ProductAt(A, B, i, j)
                    /\ calls' = 2
                          => At(C', i, j) = At(acc0, i, j) + 2 * ProductAt(A, B, i, j)
       /\ (suite = "gaxpy" /\ calls' = calls + 1)
              => \A i \in 0 .. (A.m - 1) :
                    /\ y'[i] = y[i] + RowTimes(A, x, i)
                    /\ calls' = 2
                          => y'[i] = acc0[i] + 2 * RowTimes(A, x, i)
      ]_vars

\* y = {10, 20}, A = [[1, 2], [3, 4]], x = {1, 1}: {13, 27} after one call,
\* {16, 34} after the second
C5_Witness ==
    /\ suite = "gaxpy" /\ calls = 2
    /\ A = TestMatrix("iota", 2, 2, 0)
    /\ x = Vec(<<1, 1>>)
    /\ acc0 = Vec(<<13, 27>>)
    /\ y = Vec(<<16, 34>>)

\* C6: both gaxpy kernels end with y[i] = y0[i] + sum over j of A(i,j)*x[j]
\* for all i, single-row and single-column A included; from y0 = 0,
\* [[1,2],[3,4]] with x = {1,1} gives {3,7}, the 1x5 matrix 1..5 with ones
\* gives {15}, the 5x1 matrix 1..5 with x = {2} gives {2,4,6,8,10}.
C6_GaxpyAddsTheProduct ==
    kernel \in GaxpyKernels
        => /\ \A i \in 0 .. (A.m - 1) : y[i] = acc0[i] + RowTimes(A, x, i)
           /\ (AllZero(acc0) /\ A = TestMatrix("iota", 2, 2, 0) /\ x = Vec(<<1, 1>>))
                  => y = Vec(<<3, 7>>)
           /\ (AllZero(acc0) /\ A = TestMatrix("iota", 1, 5, 0) /\ AllZero([j \in DOMAIN x |-> x[j] - 1]))
                  => y = Vec(<<15>>)
           /\ (AllZero(acc0) /\ A = TestMatrix("iota", 5, 1, 0) /\ x = Vec(<<2>>))
                  => y = Vec(<<2, 4, 6, 8, 10>>)

\* the single-column test: the 5x1 matrix 1..5 and x = {2}, column-oriented
C6_Witness ==
    /\ kernel = "gaxpy_column_oriented" /\ calls = 1
    /\ A = TestMatrix("iota", 5, 1, 0)
    /\ x = Vec(<<2>>)
    /\ AllZero(acc0)
    /\ y = Vec(<<2, 4, 6, 8, 10>>)

\* C7: on the same A, x and initial y, gaxpy_row_oriented and
\* gaxpy_column_oriented leave the same y, whatever the shape of A.
C7_RowAndColumnAgree ==
    /\ kernel = "gaxpy_row_oriented" => y = gaxpy_column_oriented(A, x, acc0)
    /\ kernel = "gaxpy_column_oriented" => y = gaxpy_row_oriented(A, x, acc0)

\* a rectangular random A on which the row-oriented kernel changed y
C7_Witness ==
    /\ kernel = "gaxpy_row_oriented"
    /\ A.m = 2 /\ A.n = 3
    /\ A \notin {TestMatrix(k, 2, 3, 0) : k \in {"iota", "identity", "zero"}}
    /\ y # acc0
    /\ y = gaxpy_column_oriented(A, x, acc0)

\* C8: with the n x n identity matrix and y zero at the start, both gaxpy
\* kernels end with y = x.
C8_IdentityGivesX ==
    (/\ kernel \in GaxpyKernels
     /\ A.m = A.n
     /\ A = TestMatrix("identity", A.m, A.n, 0)
     /\ AllZero(acc0))
        => y = x

\* the 3x3 identity applied to x = {1, 2, 3}
C8_Witness ==
    /\ kernel \in GaxpyKernels /\ calls = 1
    /\ A = TestMatrix("identity", 3, 3, 0)
    /\ AllZero(acc0)
    /\ x = Vec(<<1, 2, 3>>)
    /\ y = x

\* C9: with x all zeros, or A all zeros, both gaxpy kernels leave y as it was.
C9_ZeroOperandLeavesY ==
    (kernel \in GaxpyKernels /\ (AllZero(x) \/ AllZero(A.data)))
        => y = acc0

\* x all zeros, a matrix without a zero element, y = {10, 20, 30} kept
C9_Witness ==
    /\ kernel = "gaxpy_column_oriented"
    /\ A = TestMatrix("iota", 3, 2, 0)
    /\ AllZero(x)
    /\ acc0 = Vec(<<10, 20, 30>>)
    /\ y = acc0

\* C10: a blocked call with block_size <= 0 is rejected: it runs no product
\* of a tile, it does not stay in the tile loops, and C is as it was.
C10_NonPositiveBlockRejected ==
    (kernel \in {"gemm_blocked", "matmul_blocked"} /\ arg_block <= 0)
        => /\ tile.iters = 0
           /\ C = acc0

\* C11: the multiply kernels validate no dimension: whatever the rows of B
\* and the shape of C, a call raises no error and makes all the
\* A.rows * A.cols * B.cols updates of its loop nest, unless the memory
\* faults under it, which happens only at an access behind a buffer; a call
\* that runs to its end with A.cols > B.rows has indexed B behind B's buffer,
\* and one with a C that has no more rows and columns than m x n and fewer
\* of one of them has indexed C behind C's buffer.
C11_NoDimensionValidation ==
    kernel # "none"
        => /\ pc = "idle" => Len(log) = Rows(A) * Cols(A) * Cols(B)
           /\ pc = "fault" => BehindBuffer(log[Len(log)])
           /\ (pc = "idle" /\ Cols(A) > Rows(B))
                  => \E p \in 1 .. Len(log) :
                         log[p][3] * Cols(B) + log[p][2] >= Rows(B) * Cols(B)
           /\ (/\ pc = "idle"
               /\ Rows(C) <= Rows(A) /\ Cols(C) <= Cols(B)
               /\ Rows(C) < Rows(A) \/ Cols(C) < Cols(B))
                  => \E p \in 1 .. Len(log) :
                         log[p][1] * Cols(C) + log[p][2] >= Rows(C) * Cols(C)

\* gemm_ijk with A 2x3 and B 2x2 ran all 12 updates, some of them on the
\* memory behind B
C11_Witness ==
    /\ kernel = "gemm_ijk" /\ pc = "idle"
    /\ Rows(A) = 2 /\ Cols(A) = 3 /\ Rows(B) = 2 /\ Cols(B) = 2
    /\ Rows(C) = 2 /\ Cols(C) = 2
    /\ Len(log) = 12
    /\ \E p \in 1 .. Len(log) : log[p][3] * Cols(B) + log[p][2] >= 4

\* the size preconditions of a multiply
SizesAgree ==
    /\ Cols(A) = Rows(B)
    /\ Rows(C) = Rows(A)
    /\ Cols(C) = Cols(B)

\* C12: when the sizes agree and block_size >= 1, every access of every
\* kernel, in the partial tiles of the blocked kernels too, has its row index
\* in 0 .. rows-1 and its column index in 0 .. cols-1 of the matrix accessed,
\* so its offset lies in the buffer and the call does not fault; the tile
\* bounds std::min gives never exceed the dimension.
C12_AccessesInBounds ==
    /\ (SizesAgree /\ kernel # "none")
           => /\ pc = "idle"
              /\ \A p \in 1 .. Len(log) :
                    LET i == log[p][1]
                        j == log[p][2]
                        k == log[p][3]
                    IN  /\ 0 <= i /\ i < Rows(A) /\ i < Rows(C)
                        /\ 0 <= j /\ j < Cols(B) /\ j < Cols(C)
                        /\ 0 <= k /\ k < Cols(A) /\ k < Rows(B)
                        /\ ~BehindBuffer(log[p])
    /\ \A bs \in 1 .. MaxBlock, d \in 1 .. MaxDim, v \in 0 .. (MaxDim - 1) :
           v < d => v < Min(v + bs, d) /\ Min(v + bs, d) <= d

\* gemm_blocked in blocks of 2 on 3x3 operands: the last tile of each
\* direction is partial
C12_Witness ==
    /\ SizesAgree
    /\ kernel = "gemm_blocked" /\ arg_block = 2 /\ pc = "idle"
    /\ Rows(A) = 3 /\ Cols(A) = 3 /\ Cols(B) = 3
    /\ Len(log) = 27
    /\ log[27] = <<2, 2, 2>>

Cell(M, i, j) == M.data[i * Cols(M) + j]

\* acc holds exactly one product: A*B for a matrix, A*x for a vector
HoldsOneProduct(acc) ==
    IF suite = "gaxpy"
    THEN \A i \in 0 .. (A.m - 1) : acc[i] = RowTimes(A, x, i)
    ELSE \A i \in 0 .. (Rows(A) - 1), j \in 0 .. (Cols(B) - 1) :
             Cell(acc, i, j) =
                 SumTo([k \in 0 .. (Cols(A) - 1) |-> Cell(A, i, k) * Cell(B, k, j)], Cols(A))

\* C14: in every benchmark harness the accumulator is all zeros at the start
\* of every timed kernel invocation, and when the harness has returned it
\* holds exactly one product A*B (or A*x).
C14_AccumulatorResetBetweenRuns ==
    /\ bench.phase = "timed_call"
           => AllZero(IF suite = "gaxpy" THEN y ELSE C.data)
    /\ bench.phase = "returned" => HoldsOneProduct(Accumulator)

\* the number of FALSE entries of a sequence of outcomes
Failures(outcomes) == Cardinality({p \in 1 .. Len(outcomes) : ~outcomes[p]})

\* C15: the test drivers exit with 0 if and only if no check failed and with
\* 1 otherwise.  main of test_blocked_gemm has tested all five
\* implementations when it returns, whether an earlier one failed or not,
\* and returns 0 exactly when all five passed; the gaxpy driver returns 0
\* exactly when its TestSuite counted no failed assertion, and the count is
\* the number of assertions that did not hold.
C15_ExitCodeReportsFailures ==
    /\ (driver.program = "test_blocked_gemm" /\ driver.exited)
           => /\ Len(driver.results) = 5
              /\ driver.exit_code = (IF Failures(driver.results) = 0 THEN 0 ELSE 1)
    /\ (driver.program = "test_gaxpy" /\ driver.exited)
           => /\ driver.failed = Failures(driver.results)
              /\ driver.passed + driver.failed = Len(driver.results)
              /\ driver.exit_code = (IF Failures(driver.results) = 0 THEN 0 ELSE 1)

\* test_blocked_gemm returned 1 after the second implementation failed and
\* the remaining three were tested and passed
C15_Witness ==
    /\ driver.program = "test_blocked_gemm" /\ driver.exited
    /\ driver.results = <<TRUE, FALSE, TRUE, TRUE, TRUE>>
    /\ driver.exit_code = 1

Tiles(d, bs) == (d + bs - 1) \div bs

\* C17: on well-formed operands and with block_size >= 1 every kernel ends
\* after finitely many updates.  A naive ordering makes its m*n*r updates and
\* returns; in a blocked call every change of ii, jj or kk inside its loop
\* is an increase made while the index is below its dimension, the call
\* reaches its return, and it has then multiplied
\* ceil(m/bs) * ceil(n/bs) * ceil(r/bs) tiles in m*n*r updates.
C17_KernelsTerminate ==
    /\ [][arg_block >= 1
            => /\ (pc = "jj" /\ pc' = "ii")
                      => tile.ii < Dim_m /\ tile'.ii > tile.ii
               /\ (pc = "kk" /\ pc' = "jj")
                      => tile.jj < Dim_n /\ tile'.jj > tile.jj
               /\ (pc = "kk" /\ pc' = "kk")
                      => tile.kk < Dim_r /\ tile'.kk > tile.kk]_vars
    /\ [](kernel \in NaiveKernels => Len(log) = Dim_m * Dim_n * Dim_r)
    /\ []((pc = "return" /\ arg_block >= 1)
             => /\ Len(log) = Dim_m * Dim_n * Dim_r
                /\ tile.iters = Tiles(Dim_m, arg_block) * Tiles(Dim_n, arg_block)
                                    * Tiles(Dim_r, arg_block))
    /\ (pc = "ii" /\ arg_block >= 1) ~> (pc = "return")

\* gemm_blocked in blocks of 2 returned from 3x3 operands after its 8 tiles
C17_Witness ==
    /\ pc = "return" /\ kernel = "gemm_blocked" /\ arg_block = 2
    /\ Dim_m = 3 /\ Dim_n = 3 /\ Dim_r = 3
    /\ tile.iters = 8
    /\ Len(log) = 27

\* the last operation made
LastOp == IF log = <<>> THEN <<"none">> ELSE log[Len(log)]

\* C18: a matrix constructed with (rows, cols) has a buffer of rows*cols
\* elements, and whatever operations are made (element write and read, the
\* random fills, zero_matrix, copy_matrix, a multiply, a gaxpy) rows, cols
\* and the buffer length are what they were before the operation and the
\* buffer length is rows*cols; a gaxpy leaves y its length.
C18_ShapeAndBufferFixed ==
    /\ \A o \in {"A", "B", "C"} :
         LET M == Objects[o]
             was == acc0[o]
         IN  /\ DOMAIN M.data = 0 .. (Rows(M) * Cols(M) - 1)
             /\ Cardinality(DOMAIN M.data) = Rows(M) * Cols(M)
             /\ Rows(M) = Rows(was) /\ Cols(M) = Cols(was)
             /\ DOMAIN M.data = DOMAIN was.data
             /\ DOMAIN M = DOMAIN was
    /\ DOMAIN y = DOMAIN acc0.y

\* a 2x2 matrix was filled by the routine of split_file and then copied
C18_Witness ==
    /\ suite = "matmul" /\ Rows(A) = 2 /\ Cols(A) = 2
    /\ Len(log) = 2
    /\ log[1][1] = "int_random_matrix"
    /\ log[2] = <<"copy_matrix", "C">>
    /\ C # acc0.C

\* C19: element (i, j) of a rows x cols matrix is at offset i*cols + j.
\* Distinct index pairs have distinct offsets in 0 .. rows*cols - 1; after a
\* write of v at (i, j) the element at that offset is v, a read of (i, j)
\* gives v, and every other element is what it was before the write.
C19_RowMajorElementAccess ==
    /\ \A i1 \in 0 .. (Rows(A) - 1), j1 \in 0 .. (Cols(A) - 1) :
         /\ i1 * Cols(A) + j1 \in 0 .. (Rows(A) * Cols(A) - 1)
         /\ \A i2 \in 0 .. (Rows(A) - 1), j2 \in 0 .. (Cols(A) - 1) :
              <<i1, j1>> # <<i2, j2>> => i1 * Cols(A) + j1 # i2 * Cols(A) + j2
    /\ LastOp[1] = "set"
           => LET i == LastOp[2]
                  j == LastOp[3]
              IN  /\ A.data[i * Cols(A) + j] = LastOp[4]
                  /\ GetElement(A, i, j) = LastOp[4]
                  /\ \A p \in DOMAIN A.data :
                         p # i * Cols(A) + j => A.data[p] = acc0.A.data[p]
                  /\ \A i2 \in 0 .. (Rows(A) - 1), j2 \in 0 .. (Cols(A) - 1) :
                         <<i2, j2>> # <<i, j>>
                             => GetElement(A, i2, j2) = GetElement(acc0.A, i2, j2)
    /\ \A p \in 2 .. Len(log) :
           (/\ log[p - 1][1] = "set" /\ log[p][1] = "get"
            /\ log[p][2] = log[p - 1][2] /\ log[p][3] = log[p - 1][3])
               => log[p][4] = log[p - 1][4]

\* 9 was written at (0, 1) of a 2x2 C++ Matrix and read back
C19_Witness ==
    /\ suite = "gemm" /\ Rows(A) = 2 /\ Cols(A) = 2
    /\ log = << <<"set", 0, 1, 9>>, <<"get", 0, 1, 9>> >>

\* C20: each random-fill routine (Matrix::fill_random, init_random_matrix,
\* the routine of split_file/matrix_utils.c) assigns every one of the
\* rows*cols elements a value in [-1, 1]: after it no element holds a value
\* stored before the fill.
C20_RandomFillAssignsEveryElement ==
    LastOp[1] \in {"fill_random", "int_random_matrix"}
        => \A p \in 0 .. (Rows(A) * Cols(A) - 1) : A.data[p] \in (0 - 1) .. 1

\* C21: compare_implementations reports speedup = time2 / time1, and as its
\* note documents a speedup below 1.0 means the first implementation is
\* faster (time1 < time2), one above 1.0 that the second is faster
\* (time2 < time1), and exactly 1.0 equal times.
C21_SpeedupReadsAsDocumented ==
    bench.harness = "compare_implementations"
        => /\ verdict.speedup = Speedup(verdict.time1, verdict.time2)
           /\ Below1(verdict.speedup) => verdict.time1 < verdict.time2
           /\ Above1(verdict.speedup) => verdict.time2 < verdict.time1
           /\ Equal1(verdict.speedup) => verdict.time1 = verdict.time2

\* C27: benchmark_gaxpy warms up once on the caller's y, zeroes y once, and
\* calls the kernel iterations times with no reset in between: the y it
\* leaves is iterations times A*x whatever y held on entry, and the two
\* kernels benchmarked on one configuration end with equal y.
C27_BenchmarkLeavesNTimesProduct ==
    /\ bench.harness = "benchmark_gaxpy"
           => \A i \in 0 .. (A.m - 1) : y[i] = bench.test_runs * RowTimes(A, x, i)
    /\ bench.harness = "compare_implementations"
           => /\ verdict.y1 = verdict.y2
              /\ ~verdict.warning
              /\ \A i \in 0 .. (A.m - 1) :
                     verdict.y1[i] = bench.test_runs * RowTimes(A, x, i)

\* benchmark_gaxpy returned from two timed runs on a y that held 10, 20
C27_Witness ==
    /\ bench.harness = "benchmark_gaxpy" /\ bench.test_runs = 2
    /\ kernel = "gaxpy_column_oriented"
    /\ acc0 = Vec(<<10, 20>>)
    /\ A.n = 2
    /\ ~AllZero(y)
    /\ \E i \in DOMAIN y : y[i] # RowTimes(A, x, i)

\* C22: the benchmark program takes up to three optional positional integer
\* arguments matrix_size, warmup_runs, test_runs with defaults 256, 3, 5;
\* the k-th argument, when given, overrides the k-th parameter and only it.
C22_PositionalArgumentsOverride ==
    driver.at # "parse"
        => /\ driver.matrix_size = IF driver.argc > 1 THEN atoi(driver.argv[1]) ELSE 256
           /\ driver.warmup_runs = IF driver.argc > 2 THEN atoi(driver.argv[2]) ELSE 3
           /\ driver.test_runs = IF driver.argc > 3 THEN atoi(driver.argv[3]) ELSE 5

\* started with the two words 64 and 2: the size and the warm-up count are
\* the words', the test count keeps its default
C22_Witness ==
    /\ driver.at = "returned" /\ driver.argc = 3
    /\ driver.argv[1] = <<"6", "4">> /\ driver.argv[2] = <<"2">>
    /\ driver.matrix_size = 64 /\ driver.warmup_runs = 2 /\ driver.test_runs = 5

\* the block sizes of the table that do not exceed the matrix size
FittingBlocks(size) == {k \in DOMAIN block_sizes : block_sizes[k] <= size}

\* C30: result_count is 7 after the basic algorithms and grows by one only
\* for each block size of {32, 64, 128} not above matrix_size, so it stays
\* within 7 .. 10, every write results[result_count++] goes to an index in
\* [0, 10), and exactly result_count entries are handed to the printer.
C30_ResultCountWithinTable ==
    /\ driver.result_count \in 0 .. 10
    /\ \A w \in DOMAIN driver.writes : driver.writes[w] = w - 1 /\ driver.writes[w] \in 0 .. 9
    /\ ~driver.overrun
    /\ Len(driver.results) = driver.result_count
    /\ driver.at = "blocked" /\ driver.i = 0 => driver.result_count = 7
    /\ driver.at \in {"blocked", "print", "returned"} => driver.result_count \in 7 .. 10
    /\ driver.at \in {"print", "returned"}
           => driver.result_count = 7 + Cardinality(FittingBlocks(driver.matrix_size))
    /\ driver.at = "returned" => driver.num_results = driver.result_count

\* run with matrix size 64: nine results, the blocked ones for 32 and 64
C30_Witness ==
    /\ driver.at = "returned" /\ driver.matrix_size = 64
    /\ driver.result_count = 9 /\ driver.num_results = 9
    /\ driver.results[8] = <<"blocked", 32>> /\ driver.results[9] = <<"blocked", 64>>

\* the update <<i, j, k>> as the kernel named xyz counts it: (x, y, z)
LoopKey(name, u) ==
    CASE name = "gemm_ijk" -> <<u[1], u[2], u[3]>>
      [] name = "gemm_jik" -> <<u[2], u[1], u[3]>>
      [] name = "gemm_ikj" -> <<u[1], u[3], u[2]>>
      [] name = "gemm_jki" -> <<u[2], u[3], u[1]>>
      [] name = "gemm_kij" -> <<u[3], u[1], u[2]>>
      [] name = "gemm_kji" -> <<u[3], u[2], u[1]>>

LexLess(p, q) ==
    \/ p[1] < q[1]
    \/ p[1] = q[1] /\ p[2] < q[2]
    \/ p[1] = q[1] /\ p[2] = q[2] /\ p[3] < q[3]

\* u is an update of the product: 0 <= i < m, 0 <= j < n, 0 <= k < r
IsUpdate(u) ==
    /\ u[1] \in 0 .. (Dim_m - 1)
    /\ u[2] \in 0 .. (Dim_n - 1)
    /\ u[3] \in 0 .. (Dim_r - 1)

\* C25: the kernel named xyz performs its m*n*r updates in lexicographic
\* order of (x, y, z), and the six variants realise six pairwise different
\* update sequences whenever m, n, r >= 2.
C25_UpdatesInLoopOrder ==
    kernel \in NaiveKernels /\ pc = "idle" /\ calls > 0
        => /\ Len(log) = Dim_m * Dim_n * Dim_r
           /\ \A p \in DOMAIN log : IsUpdate(log[p])
           /\ \A p \in 1 .. (Len(log) - 1) :
                  LexLess(LoopKey(kernel, log[p]), LoopKey(kernel, log[p + 1]))
           /\ Dim_m >= 2 /\ Dim_n >= 2 /\ Dim_r >= 2
                  => \A other \in NaiveKernels \ {kernel} :
                         RunKernel(other, 0, A, B, Acc(acc0)).log # log

\* gemm_jki has run on a 2 x 3 by 3 x 2 product: j outermost, i innermost
C25_Witness ==
    /\ kernel = "gemm_jki" /\ pc = "idle" /\ calls > 0
    /\ Dim_m = 2 /\ Dim_r = 3 /\ Dim_n = 2
    /\ Len(log) = 12
    /\ log[1] = <<0, 0, 0>> /\ log[2] = <<1, 0, 0>> /\ log[3] = <<0, 0, 1>>
    /\ log[12] = <<1, 1, 2>>

\* the corner (ii, jj, kk) of the tile of block size bs that holds update u
TileOf(u, bs) == <<(u[1] \div bs) * bs, (u[2] \div bs) * bs, (u[3] \div bs) * bs>>

\* u comes before v in a blocked run: by tile (ii, jj, kk), then by (i, k, j)
BlockedBefore(u, v, bs) ==
    \/ LexLess(TileOf(u, bs), TileOf(v, bs))
    \/ /\ TileOf(u, bs) = TileOf(v, bs)
       /\ LexLess(LoopKey("gemm_ikj", u), LoopKey("gemm_ikj", v))

AllUpdates == (0 .. (Dim_m - 1)) \X (0 .. (Dim_n - 1)) \X (0 .. (Dim_r - 1))

\* C23: the blocked kernel visits the tiles with ii outermost, then jj, then
\* kk, stepping by block_size from 0; in a tile it makes the updates in ikj
\* order over [ii, min(ii+bs, m)) x [kk, min(kk+bs, r)) x [jj, min(jj+bs, n)),
\* and all updates of a tile are made before the next tile begins.
C23_TilesInOrder ==
    kernel \in {"gemm_blocked", "matmul_blocked"} /\ arg_block > 0
        => /\ \A p \in DOMAIN log : IsUpdate(log[p])
           /\ \A p \in 1 .. (Len(log) - 1) : BlockedBefore(log[p], log[p + 1], arg_block)
           /\ pc = "kk"
                  => /\ tile.ii % arg_block = 0 /\ tile.jj % arg_block = 0
                     /\ tile.kk % arg_block = 0
                     /\ {log[p] : p \in DOMAIN log}
                            = {u \in AllUpdates :
                                   LexLess(TileOf(u, arg_block), <<tile.ii, tile.jj, tile.kk>>)}

\* block size 2 on a 3 x 3 by 3 x 3 product: about to enter the clamped tile
\* at (2, 0, 2), the tile at (2, 0, 0) just completed in ikj order
C23_Witness ==
    /\ kernel = "gemm_blocked" /\ arg_block = 2 /\ pc = "kk"
    /\ Dim_m = 3 /\ Dim_n = 3 /\ Dim_r = 3
    /\ tile.ii = 2 /\ tile.jj = 0 /\ tile.kk = 2
    /\ Len(log) = 22
    /\ log[19] = <<2, 0, 0>> /\ log[20] = <<2, 1, 0>>
    /\ log[21] = <<2, 0, 1>> /\ log[22] = <<2, 1, 1>>

\* the index range of the tile that starts at start: [start, min(start+bs, dim))
TileRange(start, bs, dim) == start .. (Min(start + bs, dim) - 1)

\* the values the tile loop for (s = 0; s < dim; s += bs) takes
TileStarts(bs, dim) == {s \in 0 .. (dim - 1) : s % bs = 0}

\* the ranges of one dimension: inside [0, dim), pairwise disjoint, covering
\* it, each of width bs but for the last
RangesPartition(bs, dim) ==
    /\ \A s \in TileStarts(bs, dim) :
           /\ TileRange(s, bs, dim) # {}
           /\ TileRange(s, bs, dim) \subseteq 0 .. (dim - 1)
           /\ s + bs < dim => Cardinality(TileRange(s, bs, dim)) = bs
           /\ Cardinality(TileRange(s, bs, dim)) <= bs
    /\ \A s, t \in TileStarts(bs, dim) :
           s # t => TileRange(s, bs, dim) \cap TileRange(t, bs, dim) = {}
    /\ UNION {TileRange(s, bs, dim) : s \in TileStarts(bs, dim)} = 0 .. (dim - 1)

BlockedRuns == kernel \in {"gemm_blocked", "matmul_blocked"} /\ arg_block > 0

\* the updates of the tile at the loop variables, as <<i, j, k>>
TileBox ==
    TileRange(tile.ii, arg_block, Dim_m) \X TileRange(tile.jj, arg_block, Dim_n)
        \X TileRange(tile.kk, arg_block, Dim_r)

\* the kernel of the other five orderings of the running suite
OtherOrderings ==
    IF suite = "gemm" THEN NaiveKernels ELSE MatmulVariants \cup {"matmul_ijk"}

\* C24: boundary tiles are clamped, not padded: the tile ranges of each
\* dimension are pairwise disjoint and cover [0, dim), every tile but the
\* last has width block_size; the blocked kernel therefore makes each
\* (i, j, k) update exactly once, m*n*r in all, as every naive ordering does.
C24_TilesPartitionUpdates ==
    /\ [](BlockedRuns
            => /\ RangesPartition(arg_block, Dim_m)
               /\ RangesPartition(arg_block, Dim_n)
               /\ RangesPartition(arg_block, Dim_r)
               /\ pc = "kk" /\ tile.kk < Dim_r
                      => /\ tile.ii \in TileStarts(arg_block, Dim_m)
                         /\ tile.jj \in TileStarts(arg_block, Dim_n)
                         /\ tile.kk \in TileStarts(arg_block, Dim_r)
               /\ pc \in {"return", "idle"}
                      => /\ Len(log) = Dim_m * Dim_n * Dim_r
                         /\ \A u \in AllUpdates :
                                Cardinality({p \in DOMAIN log : log[p] = u}) = 1
                         /\ \A name \in OtherOrderings :
                                Len(RunKernel(name, 0, A, B, Acc(acc0)).log) = Len(log))
    /\ [][BlockedRuns /\ pc = "kk" /\ tile.kk < Dim_r
            => /\ Len(log') = Len(log) + Cardinality(TileBox)
               /\ {log'[p] : p \in (Len(log) + 1) .. Len(log')} = TileBox]_vars

\* block size 2 on a 3 x 3 by 3 x 3 product has returned: 27 updates, the
\* last tile the single update of the corner
C24_Witness ==
    /\ kernel = "matmul_blocked" /\ arg_block = 2 /\ pc = "idle" /\ calls > 0
    /\ Dim_m = 3 /\ Dim_n = 3 /\ Dim_r = 3
    /\ Len(log) = 27
    /\ log[27] = <<2, 2, 2>> /\ log[26] = <<2, 2, 1>> /\ log[25] = <<2, 2, 0>>

\* one matrix as the class of the C++ suite and as the struct of the C suite
AsMatrix(M) == [m |-> Rows(M), n |-> Cols(M), data |-> M.data]

AsStruct(M) == [rows |-> Rows(M), cols |-> Cols(M), data |-> M.data]

\* C26: gemm_blocked, built from six helpers, makes exactly the updates of
\* the monolithic matmul_blocked, in the same sequence, for every block
\* size >= 1; the modular matmul_ikj and the three-level matmul_ikj_inlined
\* make the same sequence of updates as the single ikj loop nest.
C26_RefactoringsKeepUpdateSequence ==
    pc = "idle" /\ calls > 0
        => /\ BlockedRuns
               => \E G \in {gemm_blocked(AsMatrix(A), AsMatrix(B), Acc(AsMatrix(acc0)), arg_block)},
                     M \in {matmul_blocked(Acc(AsStruct(acc0)), AsStruct(A), AsStruct(B), arg_block)} :
                      /\ G.log = M.log /\ G.log = log
                      /\ G.C.data = M.C.data /\ G.C.data = C.data
           /\ kernel = "gemm_ikj"
               => \E N \in {matmul_ikj_inlined(Acc(AsStruct(acc0)), AsStruct(A), AsStruct(B))},
                     M \in {matmul_ikj(Acc(AsStruct(acc0)), AsStruct(A), AsStruct(B))},
                     L \in {matmul_ikj_inlined_levels(Acc(AsStruct(acc0)), AsStruct(A), AsStruct(B))} :
                      /\ M.log = N.log /\ L.log = N.log /\ N.log = log
                      /\ M.C.data = N.C.data /\ L.C.data = N.C.data /\ N.C.data = C.data

\* the ikj nest has run on a 2 x 3 by 3 x 2 product that is not zero
C26_Witness ==
    /\ kernel = "gemm_ikj" /\ pc = "idle" /\ calls > 0
    /\ Dim_m = 2 /\ Dim_r = 3 /\ Dim_n = 2
    /\ Len(log) = 12 /\ log[2] = <<0, 1, 0>> /\ log[3] = <<0, 0, 1>>
    /\ \E c \in DOMAIN C.data : C.data[c] # 0

\* one block holds the whole product
OneBlock == BlockedRuns /\ arg_block >= Dim_m /\ arg_block >= Dim_n /\ arg_block >= Dim_r

\* C28: with block_size >= max(m, n, r) the blocked kernel processes exactly
\* one tile triple (ii = jj = kk = 0, i_max = m, j_max = n, k_max = r) and
\* makes exactly the update sequence of gemm_ikj; the block sizes 32 .. 256
\* of the test program are in this case on its small product.
C28_OneTileIsIkj ==
    /\ OneBlock /\ pc = "kk" /\ tile.kk < Dim_r
           => /\ tile.ii = 0 /\ tile.jj = 0 /\ tile.kk = 0 /\ tile.iters = 0
              /\ log = <<>>
              /\ TileRange(tile.ii, arg_block, Dim_m) = 0 .. (Dim_m - 1)
              /\ TileRange(tile.jj, arg_block, Dim_n) = 0 .. (Dim_n - 1)
              /\ TileRange(tile.kk, arg_block, Dim_r) = 0 .. (Dim_r - 1)
    /\ OneBlock /\ pc = "return"
           => /\ tile.iters = 1
              /\ \E K \in {gemm_ikj(AsMatrix(A), AsMatrix(B), Acc(AsMatrix(acc0)))},
                    G \in {gemm_blocked(AsMatrix(A), AsMatrix(B), Acc(AsMatrix(acc0)), arg_block)} :
                     /\ log = K.log /\ G.log = K.log
                     /\ C.data = K.C.data /\ G.C.data = K.C.data
    /\ kernel = "gemm_ikj" /\ pc = "idle" /\ calls > 0
           => \A bs \in {32, 64, 128, 256} :
                  \E G \in {gemm_blocked(A, B, Acc(acc0), bs)} :
                      G.log = log /\ G.C = C

\* block size 3 on a 3 x 2 by 2 x 3 product returns after its single tile
C28_Witness ==
    /\ kernel = "gemm_blocked" /\ arg_block = 3 /\ pc = "return"
    /\ Dim_m = 3 /\ Dim_r = 2 /\ Dim_n = 3
    /\ tile.iters = 1 /\ Len(log) = 18
    /\ log[1] = <<0, 0, 0>> /\ log[4] = <<0, 0, 1>> /\ log[18] = <<2, 2, 1>>

\* M is an all-zero rows x cols matrix
ZeroOfShape(M, rows, cols) ==
    /\ Rows(M) = rows /\ Cols(M) = cols
    /\ DOMAIN M.data = IF rows * cols = 0 THEN {} ELSE 0 .. (rows * cols - 1)
    /\ AllZero(M.data)

\* C29: a newly constructed matrix is all zero (Matrix(rows, cols),
\* create_matrix), and in the correctness checks every accumulator is all
\* zero when a kernel is first applied to it: C_ref, C_expected and C_actual
\* by construction, C_test because it is zeroed before each further
\* variant; no comparison is affected by a variant verified before.
C29_AccumulatorsStartZero ==
    /\ pc \in {"ref", "expected"}
           => ZeroOfShape(acc0, Dim_m, Dim_n) /\ ZeroOfShape(C, Dim_m, Dim_n)
    /\ pc \in {"run", "actual"} => ZeroOfShape(C, Dim_m, Dim_n)
    /\ suite = "matmul"
           => \A t \in DOMAIN verdict :
                  /\ verdict[t][1] = names[t]
                  /\ verdict[t][2]
                         = Report(matrix_max_diff(acc0,
                               RunVariant(names[t], create_matrix(A.rows, B.cols), A, B)))
                  /\ verdict[t][2] = "PASS"
    /\ suite = "gemm" => \A t \in DOMAIN verdict : verdict[t][2] = "PASS"

\* verify_correctness about to run its third variant on the zeroed C_test,
\* two variants verified against a reference that is not zero
C29_Witness ==
    /\ suite = "matmul" /\ pc = "run" /\ calls = 2
    /\ AllZero(C.data) /\ ~AllZero(acc0.data)
    /\ Len(verdict) = 2

===========================================================================
